---- MODULE Spec2Model ----
(***************************************************************************)
(* State-machine model of the DW1000 high-level driver                     *)
(* (dw1000/src/hl: uninitialized.rs, ready.rs, sending.rs, error.rs).      *)
(*                                                                         *)
(* The device handle is (mode, seq, state).  The chip is a record of the   *)
(* register fields the driver reads back or whose value decides what the   *)
(* radio does.  Every handler is a sequence of register accesses; any one  *)
(* of them may fail with a transport error, which ends the handler there.  *)
(***************************************************************************)
EXTENDS Integers, Sequences, FiniteSets, TLC

VARIABLES
    seq,     \* DW1000.seq: the frame sequence counter (Wrapping<u8>)
    state,   \* DW1000.state: the mode payload, tagged with its mode
    chip,    \* the register fields of the DW1000 the driver depends on
    pc,      \* where the running handler stands ("idle": no call in progress)
    call,    \* the arguments of the call in progress
    log,     \* the register accesses of the current or last call, in order
    last,    \* the last completed call and what it returned
    pre,     \* the handle as it was when the last call started
    flow,    \* the transmission started by the last successful send/send_raw
    sent,    \* successful `send` calls since `new`, and the last one's frame
    faults   \* transport errors so far

vars == <<seq, state, chip, pc, call, log, last, pre, flow, sent, faults>>

(***************************************************************************)
(* Bounds of the model                                                     *)
(***************************************************************************)
\* `send` calls explored per run beside the other operations
MaxSends == 2
\* `send` calls explored per run in the sequence-number specification
MaxWrapSends == 257
\* transport errors injected per run
MaxFaults == 1
\* largest value an event counter is followed to
MaxEvc == 1
\* `send` calls explored per run in the mode specification
MaxModeSends == 1
\* largest byte count a writer is taken to return
MaxLen == 260

\* Wrapping<u8>
SeqModulus == 256
\* u8
U8Modulus == 256
\* TX_FCTRL.tflen takes bits 0 to 6 of the register
TflenBits == 7

(***************************************************************************)
(* Values                                                                  *)
(***************************************************************************)
Bit(b) == IF b THEN 1 ELSE 0

\* TX_TIME.tx_stamp is a 40-bit field, kept as two 20-bit limbs <<high, low>>
StampLimb == 1048576
TxStamps == {<<StampLimb - 1, StampLimb - 1>>}

\* unsafe { Instant::new_unchecked(tx_timestamp) }: the value is stored as is
Instant_new_unchecked(value) == [instant |-> value]

Ok(v) == [t |-> "Ok", v |-> v]
WouldBlock == [t |-> "WouldBlock"]
Err(e) == [t |-> "Err", e |-> e]
Panic == [t |-> "Panic"]
NoResult == [t |-> "None"]

\* TxContinuation
ContReady == [kind |-> "Ready"]
ContRx(ff, ack) == [kind |-> "Rx", frame_filtering |-> ff, auto_ack |-> ack]
ContRxDoubleBuffered(ff, ack) ==
    [kind |-> "RxDoubleBuffered", frame_filtering |-> ff, auto_ack |-> ack]

\* AutoAck
AckDisabled == [kind |-> "Disabled"]
AckEnabled(t) == [kind |-> "Enabled", turnaround_time |-> t]

\* the mode payloads
Uninitialized == [m |-> "Uninitialized"]
Ready == [m |-> "Ready"]
Sending(finished, continuation, config) ==
    [m |-> "Sending", finished |-> finished, continuation |-> continuation,
     config |-> config]
SingleBufferReceiving(finished, config) ==
    [m |-> "SingleBufferReceiving", finished |-> finished, config |-> config]
AutoDoubleBufferReceiving(finished, config) ==
    [m |-> "AutoDoubleBufferReceiving", finished |-> finished, config |-> config]
Sleeping(tx_antenna_delay) ==
    [m |-> "Sleeping", tx_antenna_delay |-> tx_antenna_delay]
\* the handle was consumed by an operation that returned only an error
Dropped == [m |-> "Dropped"]

Mode == state.m

(***************************************************************************)
(* Configurations (configs.rs is not part of the sources at hand: the      *)
(* derivations below follow the specification, section 4.2 and 3)          *)
(***************************************************************************)
TxConfig(bitrate, sfd, continuation) ==
    [channel |-> "Channel5", bitrate |-> bitrate,
     pulse_repetition_frequency |-> "Mhz16", preamble_length |-> "Symbols64",
     sfd_sequence |-> sfd, continuation |-> continuation]

RxConfig(bitrate, sfd, ff, ack) ==
    [channel |-> "Channel5", bitrate |-> bitrate,
     pulse_repetition_frequency |-> "Mhz16",
     expected_preamble_length |-> "Symbols64",
     sfd_sequence |-> sfd, frame_filtering |-> ff, auto_ack |-> ack]

\* RxConfig::from_tx_config: channel, bitrate, PRF and SFD are copied from the
\* TxConfig; filtering and auto-ack come from the continuation
RxConfig_from_tx_config(config, frame_filtering, auto_ack) ==
    [channel |-> config.channel, bitrate |-> config.bitrate,
     pulse_repetition_frequency |-> config.pulse_repetition_frequency,
     expected_preamble_length |-> config.preamble_length,
     sfd_sequence |-> config.sfd_sequence,
     frame_filtering |-> frame_filtering, auto_ack |-> auto_ack]

\* PreambleLength::get_recommended_drx_tune1b(bitrate): fallible, the preamble
\* length and the bitrate must be compatible
get_recommended_drx_tune1b(preamble_length, bitrate) ==
    CASE preamble_length = "Symbols64" /\ bitrate = "Kbps6800" -> Ok(16)
      [] preamble_length \in {"Symbols128", "Symbols256", "Symbols512", "Symbols1024"}
           /\ bitrate \in {"Kbps850", "Kbps6800"} -> Ok(32)
      [] preamble_length \in {"Symbols1536", "Symbols2048", "Symbols4096"}
           /\ bitrate = "Kbps110" -> Ok(100)
      [] OTHER -> Err("InvalidConfiguration")

\* PreambleLength::get_recommended_pac_size
get_recommended_pac_size(preamble_length) ==
    CASE preamble_length \in {"Symbols64", "Symbols128"} -> 8
      [] preamble_length \in {"Symbols256", "Symbols512"} -> 16
      [] preamble_length = "Symbols1024" -> 32
      [] OTHER -> 64

\* PulseRepetitionFrequency::get_recommended_drx_tune2(pac_size): fallible
get_recommended_drx_tune2(prf, pac_size) ==
    IF prf \in {"Mhz16", "Mhz64"} /\ pac_size \in {8, 16, 32, 64}
    THEN Ok(pac_size) ELSE Err("InvalidConfiguration")

RxConfigs ==
    {RxConfig("Kbps6800", "IEEE", FALSE, AckDisabled),
     RxConfig("Kbps6800", "IEEE", TRUE, AckEnabled(0)),
     RxConfig("Kbps110", "Decawave", FALSE, AckDisabled)}
SendTimes == {"Now", "Delayed", "OnSync"}

(***************************************************************************)
(* The chip                                                                *)
(***************************************************************************)
\* SYS_STATUS bits reset_flags clears
TxStatusBits == {"txfrb", "txprs", "txphs", "txfrs"}

\* the chip after power-on
ChipInit ==
    [status |-> {},            \* SYS_STATUS event bits that are set
     hsrbp |-> 0, icrbp |-> 0, \* host / chip side receive buffer pointer
     evc_clr |-> 0, evc_en |-> 0,   \* EVC_CTRL as it reads back
     evc_on |-> FALSE,         \* the event counters are counting
     evc_hpw |-> 0, evc_tpw |-> 0,
     tx_stamp |-> <<0, 0>>,
     ostsm |-> 0,
     ffen |-> 0, dis_drxb |-> 1, rxautr |-> 0, autoack |-> 0,
     tx |-> "idle",            \* transmitter: idle, armed (waiting for sync), inflight
     txdlys |-> 0, wait4resp |-> 0,
     rx |-> FALSE,             \* the receiver is on
     tx_antd |-> 0,            \* TX_ANTD
     sys_mask |-> {}]          \* SYS_MASK: the interrupts enabled

\* register accesses: read, write (fields not named are written as 0),
\* modify (read-modify-write: fields not named keep their value)
R(reg, v) == [k |-> "r", reg |-> reg, v |-> v]
W(reg, v) == [k |-> "w", reg |-> reg, v |-> v]
M(reg, v) == [k |-> "m", reg |-> reg, v |-> v]

Has(v, f) == f \in DOMAIN v
Field(v, f, default) == IF Has(v, f) THEN v[f] ELSE default

\* SYS_CTRL: the command bits act when written as 1
SysCtrl(c, v) ==
    LET off == Field(v, "trxoff", 0) = 1
        start == Field(v, "txstrt", 0) = 1 /\ ~off
        arm == ~start /\ ~off /\ Has(v, "sfcst") /\ c.ostsm = 1
        c1 == IF off THEN [c EXCEPT !.tx = "idle", !.rx = FALSE, !.wait4resp = 0]
              ELSE IF start
              THEN [c EXCEPT !.tx = "inflight",
                             !.txdlys = Field(v, "txdlys", 0),
                             !.wait4resp = Field(v, "wait4resp", 0)]
              ELSE IF arm THEN [c EXCEPT !.tx = "armed", !.txdlys = 0,
                                         !.wait4resp = 0]
              ELSE c
        c2 == IF Field(v, "rxenab", 0) = 1 THEN [c1 EXCEPT !.rx = TRUE] ELSE c1
    IN IF Field(v, "hrbpt", 0) = 1 THEN [c2 EXCEPT !.hsrbp = 1 - @] ELSE c2

\* the effect of one access on the chip
Apply(c, a) ==
    IF a.k = "r" THEN c
    ELSE CASE a.reg = "sys_status" ->
                \* write 1 to clear
                [c EXCEPT !.status = @ \ {b \in DOMAIN a.v : a.v[b] = 1}]
           [] a.reg = "sys_ctrl" -> SysCtrl(c, a.v)
           [] a.reg = "evc_ctrl" ->
                IF Field(a.v, "evc_clr", 0) = 1
                THEN [c EXCEPT !.evc_clr = 1, !.evc_en = Field(a.v, "evc_en", 0),
                               !.evc_hpw = 0, !.evc_tpw = 0]
                ELSE [c EXCEPT !.evc_clr = 0, !.evc_en = Field(a.v, "evc_en", 0),
                               !.evc_on = Field(a.v, "evc_en", 0) = 1]
           [] a.reg = "ec_ctrl" ->
                [c EXCEPT !.ostsm = Field(a.v, "ostsm", IF a.k = "m" THEN @ ELSE 0)]
           [] a.reg = "sys_cfg" ->
                [c EXCEPT
                   !.ffen = Field(a.v, "ffen", IF a.k = "m" THEN @ ELSE 0),
                   !.dis_drxb = Field(a.v, "dis_drxb", IF a.k = "m" THEN @ ELSE 0),
                   !.rxautr = Field(a.v, "rxautr", IF a.k = "m" THEN @ ELSE 0),
                   !.autoack = Field(a.v, "autoack", IF a.k = "m" THEN @ ELSE 0)]
           [] a.reg = "tx_antd" -> [c EXCEPT !.tx_antd = Field(a.v, "value", 0)]
           [] a.reg = "sys_mask" ->
                [c EXCEPT !.sys_mask =
                    ((IF a.k = "m" THEN @ ELSE {})
                        \ {b \in DOMAIN a.v : a.v[b] = 0})
                    \cup {b \in DOMAIN a.v : a.v[b] = 1}]
           [] OTHER -> c

\* the chip after accesses i..n of prog
RECURSIVE ApplyAll(_, _, _, _)
ApplyAll(c, prog, i, n) ==
    IF i > n THEN c ELSE ApplyAll(Apply(c, prog[i]), prog, i + 1, n)

\* run a handler's accesses; f = 0: all succeed, f = k: the k-th fails with a
\* transport error and has no effect, and nothing after it is attempted
Run(c, prog, f) ==
    LET n == IF f = 0 THEN Len(prog) ELSE f - 1
    IN [chip |-> ApplyAll(c, prog, 1, n), log |-> SubSeq(prog, 1, n), spi |-> f # 0]

\* the points at which a handler's accesses can be made to fail
FailPoints(prog) ==
    IF faults < MaxFaults
    THEN {0} \cup {i \in 1..Len(prog) : prog[i].k # "d"}
    ELSE {0}

\* what a handler hands back: the handle (seq, state), the chip, the accesses
\* it made and its return value
Outcome(sq, st, run, res) ==
    [seq |-> sq, state |-> st, chip |-> run.chip, log |-> run.log,
     res |-> IF run.spi THEN Err("Spi") ELSE res]

IsWrite(a) == a.k \in {"w", "m"}
Writes(accesses) == SelectSeq(accesses, IsWrite)

(***************************************************************************)
(* Helpers of the driver that live outside the sources at hand             *)
(***************************************************************************)
\* force_idle: forces the transceiver idle
force_idle(double_buffered) == <<W("sys_ctrl", [trxoff |-> 1])>>

\* start_receiving: starts listening
start_receiving == <<M("sys_ctrl", [rxenab |-> 1])>>

\* read_otp(address)
read_otp(address, value) ==
    <<W("otp_addr", [value |-> address]),
      W("otp_ctrl", [otprden |-> 1, otpread |-> 1]),
      W("otp_ctrl", [otprden |-> 1]),
      R("otp_rdat", [value |-> value]),
      W("otp_ctrl", [otprden |-> 0])>>

\* get_address
get_address == <<R("panadr", <<>>)>>

\* get_tx_antenna_delay
get_tx_antenna_delay(c) == <<R("tx_antd", [value |-> c.tx_antd])>>

(***************************************************************************)
(* uninitialized.rs                                                        *)
(***************************************************************************)
\* init had it cleared the clock bits without waiting for the load
init_prog_clearing_before_wait(ldotune_low) ==
    <<W("agc_tune1", [value |-> "0x8870"]),
      W("agc_tune2", [value |-> "0x2502A907"]),
      W("drx_tune2", [value |-> "0x311A002D"]),
      M("lde_cfg1", [ntm |-> 13]),
      W("lde_cfg2", [value |-> "0x1607"]),
      W("tx_power", [value |-> "0x0E082848"]),
      M("rf_txctrl", [txmtune |-> 15, txmq |-> 7]),
      W("tc_pgdelay", [value |-> "0xC0"]),
      W("fs_plltune", [value |-> "0xBE"])>>
    \o read_otp(4, ldotune_low)
    \o (IF ldotune_low # 0
        THEN read_otp(5, 0) \o <<W("ldotune", [value |-> ldotune_low])>>
        ELSE <<>>)
    \o <<M("pmsc_ctrl0", [or |-> "0x0301"]),
         W("otp_ctrl", [ldeload |-> 1]),
         M("pmsc_ctrl0", [and_not |-> "0x0101"]),
         [k |-> "d", reg |-> "delay_ms", v |-> [ms |-> 5]]>>

\* ldotune_low: the word the one-time-programmable memory holds at 0x004
init_prog(ldotune_low) ==
    <<W("agc_tune1", [value |-> "0x8870"]),
      W("agc_tune2", [value |-> "0x2502A907"]),
      W("drx_tune2", [value |-> "0x311A002D"]),
      M("lde_cfg1", [ntm |-> 13]),
      W("lde_cfg2", [value |-> "0x1607"]),
      W("tx_power", [value |-> "0x0E082848"]),
      M("rf_txctrl", [txmtune |-> 15, txmq |-> 7]),
      W("tc_pgdelay", [value |-> "0xC0"]),
      W("fs_plltune", [value |-> "0xBE"])>>
    \o read_otp(4, ldotune_low)
    \o (IF ldotune_low # 0
        THEN read_otp(5, 0) \o <<W("ldotune", [value |-> ldotune_low])>>
        ELSE <<>>)
    \o <<M("pmsc_ctrl0", [or |-> "0x0301"]),
         W("otp_ctrl", [ldeload |-> 1]),
         [k |-> "d", reg |-> "delay_ms", v |-> [ms |-> 5]],
         M("pmsc_ctrl0", [and_not |-> "0x0101"])>>

\* init had it handed the handle back with the error
init_returning_handle(sq, st, c, ldotune_low, f) ==
    LET run == Run(c, init_prog(ldotune_low), f)
    IN Outcome(sq, IF run.spi THEN st ELSE Ready, run, Ok("Ready"))

\* init(self, delay) -> Result<DW1000<Ready>, Error>: on failure only the
\* error comes back
init(sq, st, c, ldotune_low, f) ==
    LET run == Run(c, init_prog(ldotune_low), f)
    IN Outcome(sq, IF run.spi THEN Dropped ELSE Ready, run, Ok("Ready"))

(***************************************************************************)
(* sending.rs                                                              *)
(***************************************************************************)
\* reset_flags had it left txfrs out of what it clears
reset_flags_keeping_txfrs ==
    <<W("sys_status", [txfrb |-> 1, txprs |-> 1, txphs |-> 1])>>

reset_flags ==
    <<W("sys_status", [txfrb |-> 1, txprs |-> 1, txphs |-> 1, txfrs |-> 1])>>

ostsm_off == <<M("ec_ctrl", [ostsm |-> 0])>>

\* wait_transmit had it reset the flags before looking at txfrs
wait_transmit_prog_resetting_first(c) ==
    LET hpw == <<R("evc_hpw", [value |-> c.evc_hpw])>>
        tpw == <<R("evc_tpw", [value |-> c.evc_tpw])>>
        sys_status == <<R("sys_status", [txfrs |-> Bit("txfrs" \in c.status)])>>
        flags == <<W("sys_status", [txfrb |-> 1, txprs |-> 1, txphs |-> 1, txfrs |-> 1])>>
    IN IF c.evc_hpw # 0 THEN hpw
       ELSE IF c.evc_tpw # 0 THEN hpw \o tpw
       ELSE IF "txfrs" \notin c.status THEN hpw \o tpw \o sys_status \o flags
       ELSE hpw \o tpw \o sys_status \o flags
              \o <<R("tx_time", [tx_stamp |-> c.tx_stamp])>>

wait_transmit_prog(c) ==
    LET hpw == <<R("evc_hpw", [value |-> c.evc_hpw])>>
        tpw == <<R("evc_tpw", [value |-> c.evc_tpw])>>
        sys_status == <<R("sys_status", [txfrs |-> Bit("txfrs" \in c.status)])>>
    IN IF c.evc_hpw # 0 THEN hpw
       ELSE IF c.evc_tpw # 0 THEN hpw \o tpw
       ELSE IF "txfrs" \notin c.status THEN hpw \o tpw \o sys_status
       ELSE hpw \o tpw \o sys_status \o reset_flags
              \o <<R("tx_time", [tx_stamp |-> c.tx_stamp])>>

\* wait_transmit had it never taken the frame for sent
wait_transmit_never_sent(sq, st, c, f) ==
    LET whole == wait_transmit_prog(c)
        prog == SubSeq(whole, 1, IF Len(whole) > 3 THEN 3 ELSE Len(whole))
        run == Run(c, prog, IF f > Len(prog) THEN 0 ELSE f)
        res == IF c.evc_hpw # 0 THEN Err("DelayedSendTooLate")
               ELSE IF c.evc_tpw # 0 THEN Err("DelayedSendPowerUpWarning")
               ELSE WouldBlock
    IN Outcome(sq, st, run, res)

\* wait_transmit had it marked the send finished before resetting the flags
wait_transmit_finishing_early(sq, st, c, f) ==
    LET run == Run(c, wait_transmit_prog(c), f)
        res == IF c.evc_hpw # 0 THEN Err("DelayedSendTooLate")
               ELSE IF c.evc_tpw # 0 THEN Err("DelayedSendPowerUpWarning")
               ELSE IF "txfrs" \notin c.status THEN WouldBlock
               ELSE Ok(Instant_new_unchecked(c.tx_stamp))
        seen == Len(run.log) >= 3 /\ "txfrs" \in c.status
    IN Outcome(sq, [st EXCEPT !.finished = @ \/ seen], run, res)

\* wait_transmit had it looked at txfrs before the warning counters
wait_transmit_txfrs_first(sq, st, c, f) ==
    LET sent_ == "txfrs" \in c.status
        sys_status == <<R("sys_status", [txfrs |-> Bit(sent_)])>>
        hpw == <<R("evc_hpw", [value |-> c.evc_hpw])>>
        tpw == <<R("evc_tpw", [value |-> c.evc_tpw])>>
        prog == IF sent_
                THEN hpw \o tpw \o sys_status \o reset_flags
                       \o <<R("tx_time", [tx_stamp |-> c.tx_stamp])>>
                ELSE IF c.evc_hpw # 0 THEN hpw
                ELSE IF c.evc_tpw # 0 THEN hpw \o tpw
                ELSE hpw \o tpw \o sys_status
        run == Run(c, prog, f)
        res == IF sent_ THEN Ok(Instant_new_unchecked(c.tx_stamp))
               ELSE IF c.evc_hpw # 0 THEN Err("DelayedSendTooLate")
               ELSE IF c.evc_tpw # 0 THEN Err("DelayedSendPowerUpWarning")
               ELSE WouldBlock
    IN Outcome(sq, [st EXCEPT !.finished = @ \/ Len(run.log) >= 4], run, res)

\* wait_transmit had it gone on with its accesses after one of them failed
wait_transmit_past_failure(sq, st, c, f) ==
    LET prog == wait_transmit_prog(c)
        run == [chip |-> ApplyAll(c, prog, 1, Len(prog)), log |-> prog,
                spi |-> f # 0]
    IN Outcome(sq, [st EXCEPT !.finished = @ \/ Len(prog) >= 4], run, WouldBlock)

\* wait_transmit(&mut self) -> nb::Result<Instant, Error>
wait_transmit(sq, st, c, f) ==
    LET run == Run(c, wait_transmit_prog(c), f)
        res == IF c.evc_hpw # 0 THEN Err("DelayedSendTooLate")
               ELSE IF c.evc_tpw # 0 THEN Err("DelayedSendPowerUpWarning")
               ELSE IF "txfrs" \notin c.status THEN WouldBlock
               ELSE Ok(Instant_new_unchecked(c.tx_stamp))
        \* self.state.finished = true follows the reset_flags write
        flagsReset == Len(run.log) >= 4
    IN Outcome(sq, [st EXCEPT !.finished = @ \/ flagsReset], run, res)

\* abort_sending had it reset the flags whether or not the send had finished
abort_sending_prog_always_resetting(st) ==
    <<W("sys_ctrl", [trxoff |-> 1]),
      W("sys_status", [txfrb |-> 1, txprs |-> 1, txphs |-> 1, txfrs |-> 1]),
      M("ec_ctrl", [ostsm |-> 0])>>

\* abort_sending had it left the external transmit synchronisation on
abort_sending_prog_keeping_ostsm(st) ==
    IF ~st.finished THEN force_idle(FALSE) \o reset_flags ELSE <<>>

abort_sending_prog(st) ==
    (IF ~st.finished THEN force_idle(FALSE) \o reset_flags ELSE <<>>) \o ostsm_off

\* abort_sending had it marked the send finished once the flags were reset
abort_sending_marking_finished(sq, st, c, f) ==
    LET prog == (IF ~st.finished
                 THEN <<W("sys_ctrl", [trxoff |-> 1]),
                        W("sys_status", [txfrb |-> 1, txprs |-> 1, txphs |-> 1,
                                         txfrs |-> 1])>>
                 ELSE <<>>) \o <<M("ec_ctrl", [ostsm |-> 0])>>
        run == Run(c, prog, f)
    IN Outcome(sq,
           IF run.spi THEN [st EXCEPT !.finished = @ \/ Len(run.log) >= 2]
           ELSE Ready,
           run, Ok("Ready"))

\* abort_sending had it started the sequence counter afresh
abort_sending_restarting_seq(sq, st, c, f) ==
    LET run == Run(c, abort_sending_prog(st), f)
    IN Outcome(0, IF run.spi THEN st ELSE Ready, run, Ok("Ready"))

\* abort_sending(self) -> Result<DW1000<Ready>, (Self, Error)>
abort_sending(sq, st, c, f) ==
    LET run == Run(c, abort_sending_prog(st), f)
    IN Outcome(sq, IF run.spi THEN st ELSE Ready, run, Ok("Ready"))

\* finish_sending had it not looked at the continuation
finish_sending_any_continuation(sq, st, c, f) == abort_sending(sq, st, c, f)

finish_sending_prog(st) ==
    IF st.continuation # ContReady THEN <<>> ELSE abort_sending_prog(st)

\* finish_sending(self) -> Result<DW1000<Ready>, (Self, Error)>
finish_sending(sq, st, c, f) ==
    IF st.continuation # ContReady
    THEN Outcome(sq, st, Run(c, <<>>, 0), Err("WrongTxContinuation"))
    ELSE abort_sending(sq, st, c, f)

\* continue_receiving had it looked at finished before the continuation
continue_receiving_finished_first(sq, st, c, f) ==
    IF ~st.finished
    THEN Outcome(sq, st, Run(c, <<>>, 0), Err("TxNotFinishedyet"))
    ELSE IF st.continuation.kind # "Rx"
    THEN Outcome(sq, st, Run(c, <<>>, 0), Err("WrongTxContinuation"))
    ELSE LET run == Run(c, <<W("sys_status", [txfrb |-> 1, txprs |-> 1,
                                              txphs |-> 1, txfrs |-> 1]),
                             M("ec_ctrl", [ostsm |-> 0])>>, f)
         IN Outcome(sq,
                IF run.spi THEN st
                ELSE SingleBufferReceiving(FALSE,
                         RxConfig_from_tx_config(st.config,
                             st.continuation.frame_filtering,
                             st.continuation.auto_ack)),
                run, Ok("SingleBufferReceiving"))

continue_receiving_prog(st) ==
    IF st.continuation.kind = "Rx" /\ st.finished
    THEN reset_flags \o ostsm_off ELSE <<>>

\* continue_receiving had it taken the default filtering and acknowledgement
continue_receiving_default_config(sq, st, c, f) ==
    IF st.continuation.kind # "Rx"
    THEN Outcome(sq, st, Run(c, <<>>, 0), Err("WrongTxContinuation"))
    ELSE IF ~st.finished
    THEN Outcome(sq, st, Run(c, <<>>, 0), Err("TxNotFinishedyet"))
    ELSE LET run == Run(c, continue_receiving_prog(st), f)
             config == RxConfig_from_tx_config(st.config, FALSE, AckDisabled)
         IN Outcome(sq,
                IF run.spi THEN st ELSE SingleBufferReceiving(FALSE, config),
                run, Ok("SingleBufferReceiving"))

\* continue_receiving(self)
\*   -> Result<DW1000<SingleBufferReceiving>, (Self, Error)>
continue_receiving(sq, st, c, f) ==
    IF st.continuation.kind # "Rx"
    THEN Outcome(sq, st, Run(c, <<>>, 0), Err("WrongTxContinuation"))
    ELSE IF ~st.finished
    THEN Outcome(sq, st, Run(c, <<>>, 0), Err("TxNotFinishedyet"))
    ELSE LET run == Run(c, continue_receiving_prog(st), f)
             config == RxConfig_from_tx_config(st.config,
                           st.continuation.frame_filtering,
                           st.continuation.auto_ack)
         IN Outcome(sq,
                IF run.spi THEN st ELSE SingleBufferReceiving(FALSE, config),
                run, Ok("SingleBufferReceiving"))

continue_receiving_double_buffered_prog(st, c) ==
    IF st.continuation.kind = "RxDoubleBuffered" /\ st.finished
    THEN <<R("sys_status", [hsrbp |-> c.hsrbp, icrbp |-> c.icrbp])>>
         \o (IF c.hsrbp # c.icrbp THEN <<M("sys_ctrl", [hrbpt |-> 1])>> ELSE <<>>)
         \o reset_flags \o ostsm_off
    ELSE <<>>

\* continue_receiving_double_buffered had it built the single-buffer handle
continue_receiving_double_buffered_single(sq, st, c, f) ==
    IF st.continuation.kind # "RxDoubleBuffered"
    THEN Outcome(sq, st, Run(c, <<>>, 0), Err("WrongTxContinuation"))
    ELSE IF ~st.finished
    THEN Outcome(sq, st, Run(c, <<>>, 0), Err("TxNotFinishedyet"))
    ELSE LET run == Run(c, continue_receiving_double_buffered_prog(st, c), f)
             config == RxConfig_from_tx_config(st.config,
                           st.continuation.frame_filtering,
                           st.continuation.auto_ack)
         IN Outcome(sq,
                IF run.spi THEN st ELSE SingleBufferReceiving(FALSE, config),
                run, Ok("AutoDoubleBufferReceiving"))

\* continue_receiving_double_buffered(self)
\*   -> Result<DW1000<AutoDoubleBufferReceiving>, (Self, Error)>
continue_receiving_double_buffered(sq, st, c, f) ==
    IF st.continuation.kind # "RxDoubleBuffered"
    THEN Outcome(sq, st, Run(c, <<>>, 0), Err("WrongTxContinuation"))
    ELSE IF ~st.finished
    THEN Outcome(sq, st, Run(c, <<>>, 0), Err("TxNotFinishedyet"))
    ELSE LET run == Run(c, continue_receiving_double_buffered_prog(st, c), f)
             config == RxConfig_from_tx_config(st.config,
                           st.continuation.frame_filtering,
                           st.continuation.auto_ack)
         IN Outcome(sq,
                IF run.spi THEN st ELSE AutoDoubleBufferReceiving(FALSE, config),
                run, Ok("AutoDoubleBufferReceiving"))

\* next_seq had the counter been wider than eight bits
next_seq_unwrapped(sq) == [ret |-> sq, seq |-> sq + 1]

(***************************************************************************)
(* ready.rs                                                                *)
(***************************************************************************)
\* next_seq(&mut self) -> u8: returns the counter and advances it, wrapping
next_seq(sq) == [ret |-> sq, seq |-> (sq + 1) % SeqModulus]

sfd_length(sfd_sequence) ==
    CASE sfd_sequence = "Decawave" -> <<W("sfd_length", [value |-> 8])>>
      [] sfd_sequence = "DecawaveAlt" -> <<W("sfd_length", [value |-> 16])>>
      [] OTHER -> <<>>

chan_ctrl(config) ==
    <<M("chan_ctrl", [channel |-> config.channel,
                      sfd |-> config.sfd_sequence,
                      rxprf |-> config.pulse_repetition_frequency])>>

\* config_receiving had it left the buffering bits as it found them
sys_cfg_receiving_keeping_buffering(double_buffered, config) ==
    <<M("sys_cfg", [ffen |-> Bit(config.frame_filtering),
                    ffab |-> 1, ffad |-> 1, ffaa |-> 1, ffam |-> 1,
                    rxm110k |-> Bit(config.bitrate = "Kbps110")])>>

\* sys_cfg().modify in config_receiving: RECEIVING::DOUBLE_BUFFERED and
\* RECEIVING::AUTO_RX_REENABLE are both true for AutoDoubleBufferReceiving
\* and both false for SingleBufferReceiving
sys_cfg_receiving(double_buffered, config) ==
    <<M("sys_cfg", [ffen |-> Bit(config.frame_filtering),
                    ffab |-> 1, ffad |-> 1, ffaa |-> 1, ffam |-> 1,
                    dis_drxb |-> Bit(~double_buffered),
                    rxautr |-> Bit(double_buffered),
                    rxm110k |-> Bit(config.bitrate = "Kbps110")])>>

\* config_receiving::<RECEIVING>(config): the accesses, and the error that
\* ends them early ("none" when the configuration is accepted)
config_receiving(double_buffered, config, c) ==
    LET drx_tune1b == get_recommended_drx_tune1b(
                          config.expected_preamble_length, config.bitrate)
        drx_tune2 == get_recommended_drx_tune2(
                         config.pulse_repetition_frequency,
                         get_recommended_pac_size(config.expected_preamble_length))
        upto_tune1a ==
            <<M("pmsc_ctrl0", [softreset |-> 14]),
              M("pmsc_ctrl0", [softreset |-> 15])>>
            \o force_idle(FALSE)
            \o sys_cfg_receiving(double_buffered, config)
            \o <<M("ec_ctrl", [pllldt |-> 1]),
                 W("sys_status", [cplock |-> 1, clkpll_ll |-> 1])>>
            \o chan_ctrl(config)
            \o sfd_length(config.sfd_sequence)
            \o <<W("drx_tune0b", [bitrate |-> config.bitrate,
                                  sfd |-> config.sfd_sequence]),
                 W("drx_tune1a", [prf |-> config.pulse_repetition_frequency])>>
        after_tune2 ==
            <<W("drx_tune2", [value |-> drx_tune2.v]),
              W("drx_tune4h", [preamble |-> config.expected_preamble_length]),
              W("rf_rxctrlh", [channel |-> config.channel]),
              W("fs_pllcfg", [channel |-> config.channel]),
              W("fs_plltune", [channel |-> config.channel]),
              W("lde_cfg2", [prf |-> config.pulse_repetition_frequency]),
              W("lde_repc", [channel |-> config.channel]),
              R("sys_status", [hsrbp |-> c.hsrbp, icrbp |-> c.icrbp])>>
            \o (IF c.hsrbp # c.icrbp THEN <<M("sys_ctrl", [hrbpt |-> 1])>> ELSE <<>>)
            \o (IF config.auto_ack.kind = "Enabled"
                THEN <<M("sys_cfg", [autoack |-> 1]),
                       M("ack_resp_t", [ack_tim |-> config.auto_ack.turnaround_time]),
                       M("sys_ctrl", [txstrt |-> 1, trxoff |-> 1])>>
                ELSE <<>>)
    IN IF drx_tune1b.t # "Ok"
       THEN [prog |-> upto_tune1a, err |-> drx_tune1b.e]
       ELSE IF drx_tune2.t # "Ok"
       THEN [prog |-> upto_tune1a \o <<W("drx_tune1b", [value |-> drx_tune1b.v])>>,
             err |-> drx_tune2.e]
       ELSE [prog |-> upto_tune1a \o <<W("drx_tune1b", [value |-> drx_tune1b.v])>>
                        \o after_tune2,
             err |-> "none"]

\* the result of a handler that ends with a configuration error or goes on
Verdict(err, res) == IF err = "none" THEN res ELSE Err(err)

receive_prog(double_buffered, config, c) ==
    LET cr == config_receiving(double_buffered, config, c)
    IN cr.prog \o (IF cr.err = "none" THEN start_receiving ELSE <<>>)

\* receive(self, config) -> Result<DW1000<SingleBufferReceiving>, Error>
receive(sq, st, c, config, f) ==
    LET cr == config_receiving(FALSE, config, c)
        run == Run(c, receive_prog(FALSE, config, c), f)
        ok == ~run.spi /\ cr.err = "none"
    IN Outcome(sq, IF ok THEN SingleBufferReceiving(FALSE, config) ELSE Dropped,
               run, Verdict(cr.err, Ok("SingleBufferReceiving")))

\* receive_auto_double_buffered(self, config)
\*   -> Result<DW1000<AutoDoubleBufferReceiving>, Error>
receive_auto_double_buffered(sq, st, c, config, f) ==
    LET cr == config_receiving(TRUE, config, c)
        run == Run(c, receive_prog(TRUE, config, c), f)
        ok == ~run.spi /\ cr.err = "none"
    IN Outcome(sq, IF ok THEN AutoDoubleBufferReceiving(FALSE, config) ELSE Dropped,
               run, Verdict(cr.err, Ok("AutoDoubleBufferReceiving")))

\* send_raw, from the match on send_time to the end
send_raw_tail(send_time, config, writer_panics) ==
    LET timing == CASE send_time = "Delayed" -> <<W("dx_time", [value |-> "time"])>>
                    [] send_time = "OnSync" -> <<M("ec_ctrl", [wait |-> 33, ostsm |-> 1])>>
                    [] OTHER -> <<>>
        start == IF send_time # "OnSync"
                 THEN [sfcst |-> 0, txstrt |-> 1,
                       txdlys |-> Bit(send_time = "Delayed"),
                       wait4resp |-> Bit(config.continuation # ContReady)]
                 ELSE [sfcst |-> 0]
    IN IF writer_panics THEN timing
       ELSE timing
            \o <<W("tx_buffer", [data |-> "frame"]),
                 M("tx_fctrl", [txbr |-> config.bitrate,
                                txprf |-> config.pulse_repetition_frequency,
                                preamble |-> config.preamble_length])>>
            \o chan_ctrl(config)
            \o sfd_length(config.sfd_sequence)
            \o <<W("rf_txctrl", [channel |-> config.channel]),
                 W("tc_pgdelay", [channel |-> config.channel]),
                 W("fs_pllcfg", [channel |-> config.channel]),
                 W("fs_plltune", [channel |-> config.channel]),
                 M("lde_cfg2", [prf |-> config.pulse_repetition_frequency]),
                 W("lde_repc", [channel |-> config.channel]),
                 M("ack_resp_t", [w4r_tim |-> 0]),
                 M("sys_ctrl", start)>>

\* send_raw had it taken a sequence number as send does
send_raw_handle_next_seq(sq, config) ==
    [seq |-> (sq + 1) % SeqModulus,
     state |-> Sending(FALSE, config.continuation, config)]

\* send_raw had it built the handle with the continuation left at Ready
send_raw_handle_ready_continuation(sq, config) ==
    [seq |-> sq, state |-> Sending(FALSE, ContReady, config)]

\* the handle send_raw returns
send_raw_handle(sq, config) ==
    [seq |-> sq, state |-> Sending(FALSE, config.continuation, config)]

\* len as u8 + 2: the cast keeps the low eight bits; where the sum passes
\* 255 a build with overflow checks panics and one without wraps around
tflen(len, overflow_checks) ==
    LET sum == (len % U8Modulus) + 2
    IN IF sum < U8Modulus THEN [panic |-> FALSE, value |-> sum]
       ELSE IF overflow_checks THEN [panic |-> TRUE]
       ELSE [panic |-> FALSE, value |-> sum % U8Modulus]

\* the part of send_raw after the continuation, with the byte count the
\* writer returns and the frame length made from it
send_raw_tail_sized(send_time, config, len, overflow_checks) ==
    LET tail == send_raw_tail(send_time, config, FALSE)
        i == CHOOSE k \in 1..Len(tail) : tail[k].reg = "tx_buffer"
        buffer == <<W("tx_buffer", [data |-> "frame", len |-> len])>>
        fl == tflen(len, overflow_checks)
    IN IF fl.panic THEN SubSeq(tail, 1, i - 1) \o buffer
       ELSE SubSeq(tail, 1, i - 1) \o buffer
            \o <<M("tx_fctrl", [tflen |-> fl.value, tfle |-> 0, txboffs |-> 0,
                                txbr |-> config.bitrate,
                                txprf |-> config.pulse_repetition_frequency,
                                preamble |-> config.preamble_length])>>
            \o SubSeq(tail, i + 2, Len(tail))

\* send_raw had it configured the receiver after starting the transmission
send_raw_rx_prog_transmitting_first(send_time, config, writer_panics, c) ==
    LET cr == config_receiving(config.continuation.kind = "RxDoubleBuffered",
                  RxConfig_from_tx_config(config,
                      config.continuation.frame_filtering,
                      config.continuation.auto_ack), c)
    IN [prog |-> (IF cr.err = "none"
                  THEN send_raw_tail(send_time, config, writer_panics)
                  ELSE <<>>) \o cr.prog,
        err |-> cr.err]

\* send_raw with an RX continuation: config_receiving, then the tail
send_raw_rx_prog(send_time, config, writer_panics, c) ==
    LET cr == config_receiving(config.continuation.kind = "RxDoubleBuffered",
                  RxConfig_from_tx_config(config,
                      config.continuation.frame_filtering,
                      config.continuation.auto_ack), c)
    IN [prog |-> cr.prog \o (IF cr.err = "none"
                             THEN send_raw_tail(send_time, config, writer_panics)
                             ELSE <<>>),
        err |-> cr.err]

\* the configuration setters: they borrow the Ready handle and hand back ()
set_antenna_delay_prog(rx_delay, tx_delay) ==
    <<W("lde_rxantd", [value |-> rx_delay]), W("tx_antd", [value |-> tx_delay])>>

set_address_prog(pan_id, addr) ==
    <<W("panadr", [pan_id |-> pan_id, short_addr |-> addr])>>

SyncBehaviours == {"None", "TimeBaseReset", "ExternalSync", "ExternalSyncWithReset"}

set_sync_behaviour_prog(behaviour) ==
    IF behaviour = "None"
    THEN <<M("ec_ctrl", [osrsm |-> 0, ostrm |-> 0]),
           M("pmsc_ctrl1", [pllsyn |-> 0])>>
    ELSE <<M("pmsc_ctrl1", [pllsyn |-> 1]),
           M("ec_ctrl", [pllldt |-> 1,
                         osrsm |-> Bit(behaviour # "TimeBaseReset"),
                         ostrm |-> Bit(behaviour # "ExternalSync"),
                         wait |-> 33])>>

\* polarity: ActiveHigh = 1, ActiveLow = 0
set_irq_polarity_prog(polarity) == <<M("sys_cfg", [hirq_pol |-> polarity])>>

RxInterrupts ==
    {"mrxdfr", "mrxfce", "mrxphe", "mrxrfsl", "mrxrfto", "mrxovrr", "mrxpto",
     "mrxsfdto", "maffrej"}

enable_tx_interrupts_prog == <<M("sys_mask", [mtxfrs |-> 1])>>
enable_rx_interrupts_prog == <<M("sys_mask", [b \in RxInterrupts |-> 1])>>
disable_interrupts_prog == <<W("sys_mask", <<>>)>>

configure_leds_prog(enable_rx_ok, enable_sfd, enable_rx, enable_tx, blink_time) ==
    LET any == Bit(enable_rx_ok \/ enable_sfd \/ enable_rx \/ enable_tx)
    IN <<M("pmsc_ctrl0", [gpdce |-> any, khzclken |-> any]),
         M("pmsc_ledc", [blnken |-> any, blink_tim |-> blink_time]),
         M("gpio_mode", [msgp0 |-> Bit(enable_rx_ok), msgp1 |-> Bit(enable_sfd),
                         msgp2 |-> Bit(enable_rx), msgp3 |-> Bit(enable_tx)])>>

\* a setter: its accesses in order, () when all of them succeed
setter(sq, st, c, prog, f) == Outcome(sq, st, Run(c, prog, f), Ok("Unit"))

evc_clear == <<W("evc_ctrl", [evc_clr |-> 1])>>
evc_enable == <<W("evc_ctrl", [evc_en |-> 1])>>

\* enter_sleep had it asked for the regulator tuning whatever the OTP holds
enter_sleep_prog_always_lldo(irq_on_wakeup, sleep_duration, ldotune_low, c) ==
    (IF sleep_duration.some
     THEN <<M("pmsc_ctrl0", [sysclks |-> 1]),
            W("aon_cfg1", [sleep_cen |-> 0, smxx |-> 0, lposc_cal |-> 0]),
            W("aon_cfg0", [sleep_tim |-> sleep_duration.v]),
            W("aon_cfg1", [sleep_cen |-> 1, lposc_cal |-> 1]),
            W("aon_ctrl", [upl_cfg |-> 1]),
            W("aon_ctrl", [upl_cfg |-> 0]),
            M("pmsc_ctrl0", [sysclks |-> 0])>>
     ELSE <<>>)
    \o get_tx_antenna_delay(c)
    \o (IF irq_on_wakeup
        THEN <<M("sys_mask", [mslp2init |-> 1, mcplock |-> 1])>> ELSE <<>>)
    \o read_otp(4, ldotune_low)
    \o <<M("aon_wcfg", [onw_ldc |-> 1, onw_llde |-> 1,
                        onw_lldo |-> 1, onw_l64p |-> 1]),
         M("aon_cfg0", [wake_spi |-> 1, wake_cnt |-> Bit(sleep_duration.some),
                        sleep_en |-> 1]),
         W("aon_ctrl", <<>>),
         W("aon_ctrl", [save |-> 1])>>

\* enter_sleep(self, irq_on_wakeup, sleep_duration)
enter_sleep_prog(irq_on_wakeup, sleep_duration, ldotune_low, c) ==
    (IF sleep_duration.some
     THEN <<M("pmsc_ctrl0", [sysclks |-> 1]),
            W("aon_cfg1", [sleep_cen |-> 0, smxx |-> 0, lposc_cal |-> 0]),
            W("aon_cfg0", [sleep_tim |-> sleep_duration.v]),
            W("aon_cfg1", [sleep_cen |-> 1, lposc_cal |-> 1]),
            W("aon_ctrl", [upl_cfg |-> 1]),
            W("aon_ctrl", [upl_cfg |-> 0]),
            M("pmsc_ctrl0", [sysclks |-> 0])>>
     ELSE <<>>)
    \o get_tx_antenna_delay(c)
    \o (IF irq_on_wakeup
        THEN <<M("sys_mask", [mslp2init |-> 1, mcplock |-> 1])>> ELSE <<>>)
    \o read_otp(4, ldotune_low)
    \o <<M("aon_wcfg", [onw_ldc |-> 1, onw_llde |-> 1,
                        onw_lldo |-> Bit(ldotune_low # 0), onw_l64p |-> 1]),
         M("aon_cfg0", [wake_spi |-> 1, wake_cnt |-> Bit(sleep_duration.some),
                        sleep_en |-> 1]),
         W("aon_ctrl", <<>>),
         W("aon_ctrl", [save |-> 1])>>

\* enter_sleep had it not carried the antenna delay over
enter_sleep_without_delay(sq, st, c, irq_on_wakeup, sleep_duration, ldotune_low, f) ==
    LET run == Run(c, enter_sleep_prog(irq_on_wakeup, sleep_duration,
                                       ldotune_low, c), f)
    IN Outcome(sq, IF run.spi THEN Dropped ELSE Sleeping(0), run,
               Ok("Sleeping"))

enter_sleep(sq, st, c, irq_on_wakeup, sleep_duration, ldotune_low, f) ==
    LET run == Run(c, enter_sleep_prog(irq_on_wakeup, sleep_duration,
                                       ldotune_low, c), f)
    IN Outcome(sq, IF run.spi THEN Dropped ELSE Sleeping(c.tx_antd), run,
               Ok("Sleeping"))

\* finish_receiving: a receiving handle goes back to Ready (receiving.rs is
\* not part of the sources at hand)
finish_receiving_prog(st) ==
    IF ~st.finished THEN force_idle(st.m = "AutoDoubleBufferReceiving") ELSE <<>>

finish_receiving(sq, st, c, f) ==
    LET run == Run(c, finish_receiving_prog(st), f)
    IN Outcome(sq, IF run.spi THEN st ELSE Ready, run, Ok("Ready"))

(***************************************************************************)
(* The state machine                                                       *)
(***************************************************************************)
NoCall == [via |-> "none"]
NoFlow ==
    [by |-> "none", send_time |-> "none", seq0 |-> 0, clears |-> 0, oks |-> 0,
     seen |-> FALSE]

\* a write of the pattern reset_flags writes
IsStatusClear(a) ==
    /\ a.k = "w" /\ a.reg = "sys_status"
    /\ {b \in DOMAIN a.v : a.v[b] = 1} = TxStatusBits
ClearCount(accesses) == Len(SelectSeq(accesses, IsStatusClear))

\* the handle as a call finds it; due: the frame has gone out and no poll of
\* this transmission has found it so yet
Before ==
    [seq |-> seq, state |-> state,
     due |-> Mode = "Sending" /\ "txfrs" \in chip.status /\ ~flow.seen]

\* DW1000::new(spi): seq: Wrapping(0), state: Uninitialized
Init ==
    /\ seq = 0
    /\ state = Uninitialized
    /\ chip = ChipInit
    /\ pc = "idle"
    /\ call = NoCall
    /\ log = <<>>
    /\ last = [op |-> "new", res |-> NoResult]
    /\ pre = [seq |-> 0, state |-> Uninitialized, due |-> FALSE]
    /\ flow = NoFlow
    /\ sent = [n |-> 0, seq_no |-> 0]
    /\ faults = 0

\* a call returns: the handle, the chip and the bookkeeping after it
Return(op, out, before, accesses) ==
    /\ seq' = out.seq
    /\ state' = out.state
    /\ chip' = out.chip
    /\ log' = accesses
    /\ last' = [op |-> op, res |-> out.res]
    /\ pre' = before
    /\ faults' = faults + Bit(out.res = Err("Spi"))
    /\ pc' = "idle"
    /\ call' = NoCall

\* a call on a Sending handle: what it adds to the transmission's record
InFlow(op, out) ==
    /\ Return(op, out, Before, out.log)
    /\ flow' = [flow EXCEPT !.clears = @ + ClearCount(out.log),
                            !.oks = @ + Bit(op = "wait_transmit" /\ out.res.t = "Ok"),
                            !.seen = @ \/ (op = "wait_transmit"
                                            /\ "txfrs" \in chip.status)]
    /\ UNCHANGED sent

\* any other call that starts no transmission
Plain(op, out) ==
    /\ Return(op, out, Before, out.log)
    /\ flow' = NoFlow
    /\ UNCHANGED sent

\* send / send_raw return
Started(c, out, before, accesses) ==
    /\ Return(c.via, out, before, accesses)
    /\ IF out.state.m = "Sending"
       THEN /\ flow' = [by |-> c.via, send_time |-> c.send_time,
                        seq0 |-> before.seq, clears |-> 0, oks |-> 0,
                        seen |-> FALSE]
            /\ sent' = IF c.via = "send"
                       THEN [n |-> sent.n + 1, seq_no |-> c.frame_seq]
                       ELSE sent
       ELSE flow' = NoFlow /\ UNCHANGED sent

\* what read_otp(0x004) may return: nothing programmed, or a tuning word
OtpWords == {0, 1}

Do_init ==
    /\ pc = "idle" /\ Mode = "Uninitialized"
    /\ \E otp \in OtpWords :
          \E f \in FailPoints(init_prog(otp)) :
             Plain("init", init(seq, state, chip, otp, f))

Do_wait_transmit ==
    /\ pc = "idle" /\ Mode = "Sending"
    /\ \E f \in FailPoints(wait_transmit_prog(chip)) :
          InFlow("wait_transmit", wait_transmit(seq, state, chip, f))

Do_finish_sending ==
    /\ pc = "idle" /\ Mode = "Sending"
    /\ \E f \in FailPoints(finish_sending_prog(state)) :
          InFlow("finish_sending", finish_sending(seq, state, chip, f))

Do_abort_sending ==
    /\ pc = "idle" /\ Mode = "Sending"
    /\ \E f \in FailPoints(abort_sending_prog(state)) :
          InFlow("abort_sending", abort_sending(seq, state, chip, f))

Do_continue_receiving ==
    /\ pc = "idle" /\ Mode = "Sending"
    /\ \E f \in FailPoints(continue_receiving_prog(state)) :
          InFlow("continue_receiving", continue_receiving(seq, state, chip, f))

Do_continue_receiving_double_buffered ==
    /\ pc = "idle" /\ Mode = "Sending"
    /\ \E f \in FailPoints(continue_receiving_double_buffered_prog(state, chip)) :
          InFlow("continue_receiving_double_buffered",
                continue_receiving_double_buffered(seq, state, chip, f))

Do_receive(configs) ==
    /\ pc = "idle" /\ Mode = "Ready"
    /\ \E config \in configs :
          \E f \in FailPoints(receive_prog(FALSE, config, chip)) :
             Plain("receive", receive(seq, state, chip, config, f))

Do_receive_auto_double_buffered(configs) ==
    /\ pc = "idle" /\ Mode = "Ready"
    /\ \E config \in configs :
          \E f \in FailPoints(receive_prog(TRUE, config, chip)) :
             Plain("receive_auto_double_buffered",
                   receive_auto_double_buffered(seq, state, chip, config, f))

Do_finish_receiving ==
    /\ pc = "idle"
    /\ Mode \in {"SingleBufferReceiving", "AutoDoubleBufferReceiving"}
    /\ \E f \in FailPoints(finish_receiving_prog(state)) :
          Plain("finish_receiving", finish_receiving(seq, state, chip, f))

\* the setters' inputs
AntennaDelays == {<<0, 0>>, <<1, 2>>}
IrqPolarities == {0, 1}
LedChoices == {<<FALSE, FALSE, FALSE, FALSE>>, <<TRUE, FALSE, FALSE, TRUE>>}

Setter(op, prog) ==
    \E f \in FailPoints(prog) : Plain(op, setter(seq, state, chip, prog, f))

Do_set_antenna_delay(antenna_delays) ==
    /\ pc = "idle" /\ Mode = "Ready"
    /\ \E delays \in antenna_delays :
          Setter("set_antenna_delay", set_antenna_delay_prog(delays[1], delays[2]))

Do_set_address ==
    /\ pc = "idle" /\ Mode = "Ready"
    /\ Setter("set_address", set_address_prog(1, 1))

Do_set_sync_behaviour(behaviours) ==
    /\ pc = "idle" /\ Mode = "Ready"
    /\ \E behaviour \in behaviours :
          Setter("set_sync_behaviour", set_sync_behaviour_prog(behaviour))

Do_set_irq_polarity(polarities) ==
    /\ pc = "idle" /\ Mode = "Ready"
    /\ \E polarity \in polarities :
          Setter("set_irq_polarity", set_irq_polarity_prog(polarity))

Do_enable_tx_interrupts ==
    /\ pc = "idle" /\ Mode = "Ready"
    /\ Setter("enable_tx_interrupts", enable_tx_interrupts_prog)

Do_enable_rx_interrupts ==
    /\ pc = "idle" /\ Mode = "Ready"
    /\ Setter("enable_rx_interrupts", enable_rx_interrupts_prog)

Do_disable_interrupts ==
    /\ pc = "idle" /\ Mode = "Ready"
    /\ Setter("disable_interrupts", disable_interrupts_prog)

Do_configure_leds(led_choices) ==
    /\ pc = "idle" /\ Mode = "Ready"
    /\ \E leds \in led_choices :
          Setter("configure_leds",
                 configure_leds_prog(leds[1], leds[2], leds[3], leds[4], 1))

SleepDurations == {[some |-> FALSE], [some |-> TRUE, v |-> 1]}

Do_enter_sleep(wakeups, durations) ==
    /\ pc = "idle" /\ Mode = "Ready"
    /\ \E irq \in wakeups, sd \in durations :
          \E otp \in OtpWords :
             \E f \in FailPoints(enter_sleep_prog(irq, sd, otp, chip)) :
                Plain("enter_sleep", enter_sleep(seq, state, chip, irq, sd, otp, f))

\* send(self, data, destination, send_time, config): next_seq, get_address,
\* then send_raw with a writer that encodes the frame and panics when the
\* encoding fails.  send_raw(self, writer, send_time, config) is the same
\* call without the first two steps.
\* With a ready-only continuation the call first writes the event-counter
\* clear bit and goes polling; otherwise it runs to its end in one piece.
SendCall(via, send_time, config, fits) ==
    LET ns == next_seq(seq)
        sq == IF via = "send" THEN ns.seq ELSE seq
        head == IF via = "send" THEN get_address ELSE <<>>
        c == [via |-> via, send_time |-> send_time, config |-> config,
              writer_panics |-> (via = "send" /\ ~fits), frame_seq |-> ns.ret]
    IN IF config.continuation = ContReady
       THEN \E f \in FailPoints(head \o evc_clear) :
              LET run == Run(chip, head \o evc_clear, f)
              IN IF run.spi
                 THEN Started(c, Outcome(sq, Dropped, run, NoResult), Before, run.log)
                 ELSE /\ pc' = "evc_clr"
                      /\ call' = c
                      /\ seq' = sq
                      /\ chip' = run.chip
                      /\ log' = run.log
                      /\ last' = [op |-> via, res |-> NoResult]
                      /\ pre' = Before
                      /\ flow' = NoFlow
                      /\ UNCHANGED <<state, sent, faults>>
       ELSE LET rx == send_raw_rx_prog(send_time, config, c.writer_panics, chip)
            IN \E f \in FailPoints(head \o rx.prog) :
                 LET run == Run(chip, head \o rx.prog, f)
                     ok == ~run.spi /\ rx.err = "none" /\ ~c.writer_panics
                     h == send_raw_handle(sq, config)
                 IN Started(c,
                        Outcome(IF ok THEN h.seq ELSE sq,
                                IF ok THEN h.state ELSE Dropped, run,
                                IF rx.err = "none" /\ c.writer_panics THEN Panic
                                ELSE Verdict(rx.err, Ok("Sending"))),
                        Before, run.log)

\* calls: the <<send_time, config>> pairs tried
Do_send(limit, calls) ==
    /\ pc = "idle" /\ Mode = "Ready"
    /\ sent.n < limit
    /\ \E c \in calls, fits \in BOOLEAN : SendCall("send", c[1], c[2], fits)

Do_send_raw(calls) ==
    /\ pc = "idle" /\ Mode = "Ready"
    /\ \E c \in calls : SendCall("send_raw", c[1], c[2], TRUE)

\* send_raw had it read the clear bit once and gone on whatever it read
SendRawPollClear_reading_once ==
    /\ pc = "evc_clr"
    /\ LET prog == <<R("evc_ctrl", [evc_clr |-> chip.evc_clr])>> \o evc_enable
       IN \E f \in FailPoints(prog) :
            LET run == Run(chip, prog, f)
            IN IF run.spi
               THEN Started(call, Outcome(seq, Dropped, run, NoResult), pre,
                            log \o run.log)
               ELSE /\ pc' = "evc_en"
                    /\ chip' = run.chip
                    /\ log' = log \o run.log
                    /\ UNCHANGED <<seq, state, call, last, pre, flow, sent, faults>>

\* while self.ll.evc_ctrl().read()?.evc_clr() == 0b1 {}, then the write of
\* the enable bit
SendRawPollClear ==
    /\ pc = "evc_clr"
    /\ LET prog == <<R("evc_ctrl", [evc_clr |-> chip.evc_clr])>>
                     \o (IF chip.evc_clr = 0 THEN evc_enable ELSE <<>>)
       IN \E f \in FailPoints(prog) :
            LET run == Run(chip, prog, f)
            IN IF run.spi
               THEN Started(call, Outcome(seq, Dropped, run, NoResult), pre,
                            log \o run.log)
               ELSE IF chip.evc_clr = 1 THEN UNCHANGED vars
               ELSE /\ pc' = "evc_en"
                    /\ chip' = run.chip
                    /\ log' = log \o run.log
                    /\ UNCHANGED <<seq, state, call, last, pre, flow, sent, faults>>

\* while self.ll.evc_ctrl().read()?.evc_en() == 0b1 {}, then force_idle and
\* the rest of send_raw
SendRawPollEnable ==
    /\ pc = "evc_en"
    /\ LET prog == <<R("evc_ctrl", [evc_en |-> chip.evc_en])>>
                     \o (IF chip.evc_en = 0
                         THEN force_idle(FALSE)
                              \o send_raw_tail(call.send_time, call.config,
                                               call.writer_panics)
                         ELSE <<>>)
       IN \E f \in FailPoints(prog) :
            LET run == Run(chip, prog, f)
                ok == ~run.spi /\ ~call.writer_panics
                h == send_raw_handle(seq, call.config)
            IN IF chip.evc_en = 1 /\ ~run.spi THEN UNCHANGED vars
               ELSE Started(call,
                        Outcome(IF ok THEN h.seq ELSE seq,
                                IF ok THEN h.state ELSE Dropped, run,
                                IF call.writer_panics THEN Panic ELSE Ok("Sending")),
                        pre, log \o run.log)

(***************************************************************************)
(* What the chip does by itself                                            *)
(***************************************************************************)
\* the frame has gone out: the transmit status bits are set and the
\* transmit time stamp is latched
ChipFrameSent ==
    /\ chip.tx = "inflight"
    /\ \E stamp \in TxStamps :
          chip' = [chip EXCEPT !.tx = "idle",
                               !.status = @ \cup TxStatusBits,
                               !.tx_stamp = stamp,
                               !.txdlys = 0,
                               !.wait4resp = 0,
                               !.rx = @ \/ chip.wait4resp = 1]
    /\ UNCHANGED <<seq, state, pc, call, log, last, pre, flow, sent, faults>>

\* the sync pin starts a transmission that waits for it
ChipSync ==
    /\ chip.tx = "armed"
    /\ chip' = [chip EXCEPT !.tx = "inflight"]
    /\ UNCHANGED <<seq, state, pc, call, log, last, pre, flow, sent, faults>>

\* a delayed transmission started too late, or before the transmitter was up
ChipWarning ==
    /\ chip.tx = "inflight" /\ chip.txdlys = 1 /\ chip.evc_on
    /\ \/ chip.evc_hpw < MaxEvc /\ chip' = [chip EXCEPT !.evc_hpw = @ + 1]
       \/ chip.evc_tpw < MaxEvc /\ chip' = [chip EXCEPT !.evc_tpw = @ + 1]
    /\ UNCHANGED <<seq, state, pc, call, log, last, pre, flow, sent, faults>>

\* EVC_CTRL reads back 0 once the chip has taken the command
ChipEvcSettle ==
    /\ chip.evc_clr = 1 \/ chip.evc_en = 1
    /\ chip' = [chip EXCEPT !.evc_clr = 0, !.evc_en = 0]
    /\ UNCHANGED <<seq, state, pc, call, log, last, pre, flow, sent, faults>>

\* a frame arrives: with double buffering the chip moves on to its other
\* buffer and keeps listening, without it the receiver stops
ChipFrameReceived ==
    /\ chip.rx
    /\ chip' = IF chip.dis_drxb = 0 THEN [chip EXCEPT !.icrbp = 1 - @]
               ELSE [chip EXCEPT !.rx = FALSE]
    /\ UNCHANGED <<seq, state, pc, call, log, last, pre, flow, sent, faults>>

\* the chip is followed while a handle is there to observe it
Chip ==
    /\ Mode \notin {"Dropped", "Sleeping"}
    /\ \/ ChipFrameSent
       \/ ChipSync
       \/ ChipWarning
       \/ ChipEvcSettle
       \/ ChipFrameReceived

\* the transmit path
ReadyOnlyConfig == TxConfig("Kbps6800", "IEEE", ContReady)
RxContinuations ==
    {ContRx(FALSE, AckDisabled), ContRxDoubleBuffered(FALSE, AckDisabled)}
TxPathCalls ==
    (SendTimes \X {ReadyOnlyConfig})
      \cup ({"Now"} \X {TxConfig("Kbps6800", "IEEE", c) : c \in RxContinuations})

Next ==
    \/ Do_init
    \/ Do_send_raw(TxPathCalls)
    \/ SendRawPollClear
    \/ SendRawPollEnable
    \/ Do_wait_transmit
    \/ Do_finish_sending
    \/ Do_abort_sending
    \/ Do_continue_receiving
    \/ Do_continue_receiving_double_buffered
    \/ Do_finish_receiving
    \/ Chip

Spec == Init /\ [][Next]_vars

\* the sequence counter over many calls of send
SeqNext ==
    \/ Do_init
    \/ Do_send(MaxWrapSends, {<<"Now", ReadyOnlyConfig>>})
    \/ SendRawPollClear
    \/ SendRawPollEnable
    \/ Do_wait_transmit
    \/ Do_finish_sending
    \/ ChipEvcSettle
    \/ ChipFrameSent

SeqSpec == Init /\ [][SeqNext]_vars

\* the ready-only transmissions of a device that also sends numbered frames
FlowNext ==
    \/ Do_init
    \/ Do_send(MaxSends, {<<"Now", ReadyOnlyConfig>>})
    \/ Do_send_raw({"Now", "Delayed"} \X {ReadyOnlyConfig})
    \/ SendRawPollClear
    \/ SendRawPollEnable
    \/ Do_wait_transmit
    \/ Do_finish_sending
    \/ Do_abort_sending
    \/ ChipEvcSettle
    \/ ChipFrameSent
    \/ ChipWarning

FlowSpec == Init /\ [][FlowNext]_vars

\* every operation of the interface, failing or not
ApiTxConfigs ==
    {TxConfig("Kbps6800", "IEEE", ContRx(FALSE, AckDisabled)),
     TxConfig("Kbps6800", "IEEE", ContRxDoubleBuffered(FALSE, AckDisabled)),
     TxConfig("Kbps110", "Decawave", ContRx(FALSE, AckDisabled))}

ApiNext ==
    \/ Do_init
    \/ Do_send(MaxSends, {<<"Now", ReadyOnlyConfig>>})
    \/ Do_send_raw({"Now"} \X ApiTxConfigs)
    \/ SendRawPollClear
    \/ SendRawPollEnable
    \/ Do_receive(RxConfigs)
    \/ Do_receive_auto_double_buffered(RxConfigs)
    \/ Do_enter_sleep(BOOLEAN, SleepDurations)
    \/ Do_wait_transmit
    \/ Do_finish_sending
    \/ Do_abort_sending
    \/ Do_continue_receiving
    \/ Do_continue_receiving_double_buffered
    \/ Do_finish_receiving
    \/ Chip

ApiSpec == Init /\ [][ApiNext]_vars

\* the operations the sources at hand define, setters included
Setters(antenna_delays, behaviours, polarities, led_choices) ==
    \/ Do_set_antenna_delay(antenna_delays)
    \/ Do_set_address
    \/ Do_set_sync_behaviour(behaviours)
    \/ Do_set_irq_polarity(polarities)
    \/ Do_enable_tx_interrupts
    \/ Do_enable_rx_interrupts
    \/ Do_disable_interrupts
    \/ Do_configure_leds(led_choices)

ModeTxConfigs ==
    {ReadyOnlyConfig,
     TxConfig("Kbps6800", "IEEE", ContRx(FALSE, AckDisabled)),
     TxConfig("Kbps6800", "IEEE", ContRxDoubleBuffered(FALSE, AckDisabled))}

ModeRxConfigs ==
    {RxConfig("Kbps6800", "IEEE", FALSE, AckDisabled),
     RxConfig("Kbps110", "Decawave", FALSE, AckDisabled)}

ModeNext ==
    \/ Do_init
    \/ Setters({<<0, 0>>}, {"ExternalSync"}, {0}, {<<TRUE, FALSE, FALSE, TRUE>>})
    \/ Do_send(MaxModeSends, {<<"Now", ReadyOnlyConfig>>})
    \/ Do_send_raw({"Now"} \X ModeTxConfigs)
    \/ SendRawPollClear
    \/ SendRawPollEnable
    \/ Do_receive(ModeRxConfigs)
    \/ Do_receive_auto_double_buffered(ModeRxConfigs)
    \/ Do_enter_sleep({FALSE}, {[some |-> FALSE]})
    \/ Do_wait_transmit
    \/ Do_finish_sending
    \/ Do_abort_sending
    \/ Do_continue_receiving
    \/ Do_continue_receiving_double_buffered
    \/ ChipEvcSettle
    \/ ChipFrameSent

ModeSpec == Init /\ [][ModeNext]_vars

\* setting the Ready handle up and putting it to sleep
SetupNext ==
    \/ Do_init
    \/ Setters(AntennaDelays, SyncBehaviours, IrqPolarities, LedChoices)
    \/ Do_enter_sleep(BOOLEAN, SleepDurations)

SetupSpec == Init /\ [][SetupNext]_vars

\* send_raw with a ready-only continuation, its polling loops running and the
\* chip taking each event-counter command in the end
HandshakeNext ==
    \/ Do_init
    \/ Do_send_raw(SendTimes \X {ReadyOnlyConfig})
    \/ SendRawPollClear
    \/ SendRawPollEnable
    \/ Do_abort_sending
    \/ ChipEvcSettle
    \/ ChipFrameSent
    \/ ChipSync

HandshakeSpec ==
    /\ Init /\ [][HandshakeNext]_vars
    /\ WF_vars(SendRawPollClear) /\ WF_vars(SendRawPollEnable)
    /\ WF_vars(ChipEvcSettle)

\* the fire-and-forget path with a caller that polls until the send has
\* finished and then finishes, and a chip that sends the frame in the end
Do_wait_transmit_until_finished ==
    /\ Mode = "Sending" /\ ~state.finished
    /\ Do_wait_transmit

Do_finish_sending_after_ok ==
    /\ last.op = "wait_transmit" /\ last.res.t = "Ok"
    /\ Do_finish_sending

PollConfigs == {ReadyOnlyConfig, TxConfig("Kbps110", "Decawave", ContReady)}

PollNext ==
    \/ Do_init
    \/ Do_send_raw(SendTimes \X PollConfigs)
    \/ SendRawPollClear
    \/ SendRawPollEnable
    \/ Do_wait_transmit_until_finished
    \/ Do_finish_sending_after_ok
    \/ ChipEvcSettle
    \/ ChipFrameSent
    \/ ChipSync
    \/ ChipWarning

\* every register access succeeds: no transport failure is left to happen
PollInit ==
    /\ seq = 0
    /\ state = Uninitialized
    /\ chip = ChipInit
    /\ pc = "idle"
    /\ call = NoCall
    /\ log = <<>>
    /\ last = [op |-> "new", res |-> NoResult]
    /\ pre = [seq |-> 0, state |-> Uninitialized, due |-> FALSE]
    /\ flow = NoFlow
    /\ sent = [n |-> 0, seq_no |-> 0]
    /\ faults = MaxFaults

PollSpec ==
    /\ PollInit /\ [][PollNext]_vars
    /\ WF_vars(Do_wait_transmit_until_finished)
    /\ WF_vars(Do_finish_sending_after_ok)
    /\ WF_vars(ChipFrameSent) /\ WF_vars(ChipSync)

\* a transmission that continues into double-buffered reception with frame
\* filtering asked for
FilteringTxConfig ==
    TxConfig("Kbps6800", "IEEE", ContRxDoubleBuffered(TRUE, AckDisabled))

FilterNext ==
    \/ Do_init
    \/ Do_send_raw({<<"Now", FilteringTxConfig>>})
    \/ Do_wait_transmit
    \/ Do_continue_receiving_double_buffered
    \/ Do_abort_sending
    \/ ChipFrameSent

FilterSpec == Init /\ [][FilterNext]_vars

\* receive configurations one after another: by receive, by
\* receive_auto_double_buffered and by send_raw with a receiving continuation
AckRxConfigs ==
    {RxConfig("Kbps6800", "IEEE", FALSE, AckDisabled),
     RxConfig("Kbps6800", "IEEE", FALSE, AckEnabled(0))}

AckTxConfigs ==
    {TxConfig("Kbps6800", "IEEE", ContRx(FALSE, AckDisabled)),
     TxConfig("Kbps6800", "IEEE", ContRx(FALSE, AckEnabled(0))),
     TxConfig("Kbps6800", "IEEE", ContRxDoubleBuffered(FALSE, AckEnabled(0)))}

AckNext ==
    \/ Do_init
    \/ Do_send_raw({"Now"} \X AckTxConfigs)
    \/ Do_abort_sending
    \/ Do_receive(AckRxConfigs)
    \/ Do_receive_auto_double_buffered(AckRxConfigs)
    \/ Do_finish_receiving

AckSpec == Init /\ [][AckNext]_vars

\* send_raw with a writer that returns len bytes, sent at once and followed by
\* single-buffered reception
SizedConfig == TxConfig("Kbps6800", "IEEE", ContRx(FALSE, AckDisabled))

Do_send_raw_sized(lens) ==
    /\ pc = "idle" /\ Mode = "Ready"
    /\ \E len \in lens, overflow_checks \in BOOLEAN :
          LET cr == config_receiving(FALSE,
                        RxConfig_from_tx_config(SizedConfig, FALSE, AckDisabled),
                        chip)
              fl == tflen(len, overflow_checks)
              prog == cr.prog \o send_raw_tail_sized("Now", SizedConfig, len,
                                                     overflow_checks)
              c == [via |-> "send_raw", send_time |-> "Now",
                    config |-> SizedConfig, writer_panics |-> FALSE,
                    frame_seq |-> 0]
          IN \E f \in FailPoints(prog) :
               LET run == Run(chip, prog, f)
                   ok == ~run.spi /\ ~fl.panic
                   h == send_raw_handle(seq, SizedConfig)
               IN Started(c,
                      Outcome(IF ok THEN h.seq ELSE seq,
                              IF ok THEN h.state ELSE Dropped, run,
                              IF fl.panic THEN Panic ELSE Ok("Sending")),
                      Before, run.log)

LengthNext ==
    \/ Do_init
    \/ Do_send_raw_sized(0..MaxLen)

LengthSpec == Init /\ [][LengthNext]_vars

\* send_raw under every send time and every kind of continuation, and the
\* calls that follow it
SendRawConfigs ==
    {ReadyOnlyConfig,
     TxConfig("Kbps6800", "IEEE", ContRx(FALSE, AckDisabled)),
     TxConfig("Kbps6800", "IEEE", ContRxDoubleBuffered(FALSE, AckDisabled)),
     TxConfig("Kbps6800", "Decawave", ContRx(TRUE, AckEnabled(0))),
     TxConfig("Kbps110", "Decawave", ContRx(FALSE, AckDisabled))}

SendRawNext ==
    \/ Do_init
    \/ Do_send_raw(SendTimes \X SendRawConfigs)
    \/ SendRawPollClear
    \/ SendRawPollEnable
    \/ Do_wait_transmit
    \/ Do_abort_sending
    \/ Do_continue_receiving
    \/ Do_continue_receiving_double_buffered
    \/ ChipEvcSettle
    \/ ChipFrameSent
    \/ ChipSync

SendRawSpec == Init /\ [][SendRawNext]_vars

(***************************************************************************)
(* Properties                                                              *)
(***************************************************************************)
\* C1: starting from counter 0, the k-th frame sent by send carries sequence
\* number (k-1) mod 256: every send advances the 8-bit counter by exactly 1
\* and the counter wraps from 255 to 0.
SendSequenceNumbers ==
    /\ sent.n > 0 => sent.seq_no = (sent.n - 1) % SeqModulus
    /\ pc = "idle" /\ Mode \in {"Ready", "Sending"} => seq = sent.n % SeqModulus
    /\ seq \in 0..(SeqModulus - 1)

\* the 257th frame has gone out with sequence number 0
SequenceWrapped ==
    /\ sent.n = SeqModulus + 1 /\ sent.seq_no = 0
    /\ Mode = "Sending" /\ last.op = "send" /\ last.res.t = "Ok"

\* the poll that has just returned read 0 from both warning counters and 0
\* from txfrs
PollReadZeros ==
    /\ last.op = "wait_transmit" /\ Len(log) >= 3
    /\ log[1].v.value = 0 /\ log[2].v.value = 0 /\ log[3].v.txfrs = 0

\* C2: a wait_transmit poll that reads 0 from both warning counters and 0
\* from txfrs returns would-block, writes no register and leaves the handle
\* as it was: still Sending, finished not set by it.
WouldBlockWhileNotSent ==
    PollReadZeros =>
        /\ last.res = WouldBlock
        /\ Writes(log) = <<>>
        /\ Mode = "Sending" /\ state = pre.state /\ seq = pre.seq
        /\ ~pre.state.finished => ~state.finished

\* a poll of a transmission still under way has returned would-block
PolledTooEarly ==
    /\ PollReadZeros /\ last.res = WouldBlock
    /\ chip.tx = "inflight" /\ ~state.finished

\* the poll that has just returned was the first to find txfrs set in this
\* transmission
FirstPollAfterSent == last.op = "wait_transmit" /\ pre.due

\* C3 as the specification words it: the first poll after txfrs becomes 1
\* returns Ok with the Instant of the hardware time stamp, and no later poll
\* of the handle returns Ok again.
FirstPollAfterSentSucceeds ==
    /\ FirstPollAfterSent => last.res = Ok(Instant_new_unchecked(chip.tx_stamp))
    /\ flow.oks <= 1

\* C3, with what the code needs for it: the first poll after txfrs becomes 1
\* returns Ok with the Instant of the hardware time stamp provided it reads 0
\* from both warning counters and none of its register accesses fails; a
\* handle gets Ok at most once, and a poll after that Ok returns would-block
\* (or the transport's error).
FirstCleanPollAfterSentSucceeds ==
    /\ ( /\ FirstPollAfterSent
         /\ Len(log) >= 2 /\ log[1].v.value = 0 /\ log[2].v.value = 0
         /\ last.res # Err("Spi") )
       => /\ last.res = Ok(Instant_new_unchecked(chip.tx_stamp))
          /\ flow.oks = 1 /\ state.finished
          /\ "txfrs" \notin chip.status
    /\ flow.oks <= 1
    /\ last.op = "wait_transmit" /\ flow.oks = 1 /\ last.res.t # "Ok"
       => last.res \in {WouldBlock, Err("Spi")}

\* the first poll after the frame went out has returned the latched time
\* stamp
FirstPollReturnedInstant ==
    /\ FirstPollAfterSent /\ Len(log) = 5
    /\ last.res = Ok(Instant_new_unchecked(<<StampLimb - 1, StampLimb - 1>>))
    /\ flow.oks = 1 /\ state.finished

\* C4: finish_sending on a handle whose continuation is Rx or
\* RxDoubleBuffered returns the same Sending handle with
\* WrongTxContinuation and writes no register, finished or not.
FinishSendingWrongContinuation ==
    (last.op = "finish_sending" /\ pre.state.continuation # ContReady)
    => /\ last.res = Err("WrongTxContinuation")
       /\ state = pre.state /\ seq = pre.seq /\ Mode = "Sending"
       /\ Writes(log) = <<>>

\* finish_sending has been refused on a finished send that continues with
\* double-buffered reception
FinishSendingRefused ==
    /\ last.op = "finish_sending" /\ last.res = Err("WrongTxContinuation")
    /\ state.continuation.kind = "RxDoubleBuffered" /\ state.finished

\* what C5 says of one of the two operations: op continues with the
\* continuation kind and ends in the receiving mode
ContinueReceivingGuarded(op, kind, mode) ==
    last.op = op =>
        /\ Mode = mode => pre.state.continuation.kind = kind /\ pre.state.finished
        /\ Mode # mode => state = pre.state /\ seq = pre.seq
        /\ pre.state.continuation.kind # kind
           => last.res = Err("WrongTxContinuation") /\ log = <<>> /\ Mode # mode
        /\ pre.state.continuation.kind = kind /\ ~pre.state.finished
           => last.res = Err("TxNotFinishedyet") /\ log = <<>> /\ Mode # mode

\* C5: continue_receiving (continue_receiving_double_buffered) yields a
\* receiving handle only if the continuation is Rx (RxDoubleBuffered) and
\* finished is true; otherwise the Sending handle comes back unchanged with
\* no register access, with WrongTxContinuation when the continuation does
\* not match, finished or not, and TxNotFinishedyet when it matches but
\* finished is false.
ContinueReceivingChecks ==
    /\ ContinueReceivingGuarded("continue_receiving", "Rx", "SingleBufferReceiving")
    /\ ContinueReceivingGuarded("continue_receiving_double_buffered",
                                "RxDoubleBuffered", "AutoDoubleBufferReceiving")

\* continue_receiving has been refused for the continuation on a send that
\* had not finished either
WrongContinuationBeforeUnfinished ==
    /\ last.op = "continue_receiving" /\ last.res = Err("WrongTxContinuation")
    /\ state.continuation.kind = "RxDoubleBuffered" /\ ~state.finished

\* the flow send_raw (ready-only continuation, immediate) -> wait_transmit
\* polled until it returned an Instant -> finish_sending has just ended
EndToEnd ==
    /\ last.op = "finish_sending" /\ last.res.t = "Ok"
    /\ flow.by = "send_raw" /\ flow.send_time = "Now" /\ flow.oks = 1
    /\ pre.state.continuation = ContReady

\* C6 as the specification words it: at the end of that flow the device is
\* Ready and its sequence counter is 1 (mod 256) past its value before
\* send_raw.
EndToEndAdvancesSeq ==
    EndToEnd => Mode = "Ready" /\ seq = (flow.seq0 + 1) % SeqModulus

\* C6, as the code has it: at the end of that flow the device is Ready and
\* its sequence counter is what it was before send_raw; only send takes a
\* sequence number.
EndToEndKeepsSeq ==
    EndToEnd => Mode = "Ready" /\ seq = flow.seq0

\* the flow has ended, after one numbered frame, with the device Ready and
\* the counter where it was
EndToEndDone ==
    EndToEnd /\ Mode = "Ready" /\ flow.seq0 = 1 /\ seq = 1 /\ sent.n = 1

\* C7: in that flow the transmit-status-clear pattern is written exactly
\* once, by the successful poll: would-block polls write none, and neither
\* does the finish_sending of a send that has finished.
OneStatusClear ==
    /\ EndToEnd => flow.clears = 1 /\ ClearCount(log) = 0
    /\ last.op = "wait_transmit" /\ last.res = WouldBlock => ClearCount(log) = 0
    /\ last.op = "wait_transmit" /\ last.res.t = "Ok" => ClearCount(log) = 1
    /\ last.op = "finish_sending" /\ pre.state.finished => ClearCount(log) = 0

\* the flow has ended with one status-clear write on record
EndToEndClearedOnce == EndToEnd /\ flow.clears = 1 /\ Len(log) = 1

EntryOps ==
    {"init", "send", "send_raw", "receive", "receive_auto_double_buffered",
     "enter_sleep"}
SendingOps ==
    {"finish_sending", "abort_sending", "continue_receiving",
     "continue_receiving_double_buffered"}

\* C8 as the specification words it: each of the ten consuming operations
\* hands the handle back with its error, so that a failed operation leaves
\* the caller with a handle.
FailureKeepsHandle ==
    (last.op \in EntryOps \cup SendingOps /\ last.res.t = "Err") => Mode # "Dropped"

\* C8, as the code has it: finish_sending, abort_sending, continue_receiving
\* and continue_receiving_double_buffered hand the handle back with their
\* error; init, send, send_raw, receive, receive_auto_double_buffered and
\* enter_sleep return the error alone, and the handle they consumed is gone.
FailureKeepsHandleInSendingOnly ==
    /\ (last.op \in SendingOps /\ last.res.t = "Err") => Mode = "Sending"
    /\ (last.op \in EntryOps /\ last.res.t = "Err") => Mode = "Dropped"

\* abort_sending has failed after a write and the caller holds the handle
AbortFailedWithHandle ==
    /\ last.op = "abort_sending" /\ last.res = Err("Spi")
    /\ Writes(log) # <<>> /\ Mode = "Sending"

\* C9: a failing finish_sending, abort_sending, continue_receiving or
\* continue_receiving_double_buffered, whatever it wrote before it failed,
\* returns a handle that is still Sending, with the payload (finished,
\* continuation, config) and the sequence counter it had before the call.
FailureLeavesSendingHandle ==
    (last.op \in SendingOps /\ last.res.t = "Err")
    => Mode = "Sending" /\ state = pre.state /\ seq = pre.seq

\* continue_receiving_double_buffered has failed in the transport after the
\* status flags were reset
ContinueFailedAfterWrites ==
    /\ last.op = "continue_receiving_double_buffered" /\ last.res = Err("Spi")
    /\ ClearCount(log) = 1 /\ state = pre.state /\ state.finished

\* C10: when the configuration is one no tuning value can be derived for,
\* receive, receive_auto_double_buffered and send_raw with a receiving
\* continuation return the configuration error without having written any
\* register.
BadConfigurationWritesNothing ==
    ( /\ last.op \in {"receive", "receive_auto_double_buffered", "send_raw"}
      /\ last.res = Err("InvalidConfiguration") )
    => Writes(log) = <<>>

\* C11: the buffering bits of SYS_CFG are those of the receiving mode the
\* handle is in, whatever earlier receive configurations set: dis_drxb = 0
\* and rxautr = 1 in AutoDoubleBufferReceiving, dis_drxb = 1 and rxautr = 0
\* in SingleBufferReceiving, whether the mode was entered from Ready or
\* through a transmission with a receiving continuation.
BufferingMatchesMode ==
    /\ Mode = "AutoDoubleBufferReceiving" => chip.dis_drxb = 0 /\ chip.rxautr = 1
    /\ Mode = "SingleBufferReceiving" => chip.dis_drxb = 1 /\ chip.rxautr = 0
    /\ (Mode = "Sending" /\ state.continuation.kind = "RxDoubleBuffered")
       => chip.dis_drxb = 0 /\ chip.rxautr = 1
    /\ (Mode = "Sending" /\ state.continuation.kind = "Rx")
       => chip.dis_drxb = 1 /\ chip.rxautr = 0

\* single-buffered reception has been entered through a transmission, on a
\* chip that had received frames with double buffering before
SingleBufferAfterDoubleBuffer ==
    /\ Mode = "SingleBufferReceiving" /\ last.op = "continue_receiving"
    /\ chip.icrbp = 1
    /\ chip.dis_drxb = 1 /\ chip.rxautr = 0

SetterOps ==
    {"set_antenna_delay", "set_address", "set_sync_behaviour", "set_irq_polarity",
     "enable_tx_interrupts", "enable_rx_interrupts", "disable_interrupts",
     "configure_leds"}

\* the mode changes of successful operations, as <<from, operation, to>>
ListedTransitions ==
    {<<"Uninitialized", "init", "Ready">>,
     <<"Ready", "send", "Sending">>,
     <<"Ready", "send_raw", "Sending">>,
     <<"Ready", "receive", "SingleBufferReceiving">>,
     <<"Ready", "receive_auto_double_buffered", "AutoDoubleBufferReceiving">>,
     <<"Ready", "enter_sleep", "Sleeping">>,
     <<"Sending", "finish_sending", "Ready">>,
     <<"Sending", "abort_sending", "Ready">>,
     <<"Sending", "continue_receiving", "SingleBufferReceiving">>,
     <<"Sending", "continue_receiving_double_buffered",
       "AutoDoubleBufferReceiving">>}

\* an entry operation that fails hands back only the error: the handle is gone
LostHandleTransitions ==
    {<<"Uninitialized", "init", "Dropped">>}
    \cup {<<"Ready", op, "Dropped">> : op \in EntryOps \ {"init"}}

CallsInTheirMode ==
    /\ last.op = "wait_transmit" => pre.state.m = "Sending"
    /\ last.op \in SetterOps => pre.state.m = "Ready" /\ Mode = "Ready"

ModeChangesWithin(transitions) ==
    Mode' # Mode => <<Mode, last'.op, Mode'>> \in transitions

\* C12 as the specification words it: there is a live handle in every
\* reachable state, and the mode changes only by the ten listed transitions.
ExactlyOneHandleListedTransitions ==
    /\ [](Mode # "Dropped" /\ CallsInTheirMode)
    /\ [][ModeChangesWithin(ListedTransitions)]_vars

\* C12: the mode of the handle changes only by the ten listed transitions or,
\* when init, send, send_raw, receive, receive_auto_double_buffered or
\* enter_sleep fails, by the loss of the handle; wait_transmit runs on a
\* Sending handle only and the setters on a Ready handle only, which they
\* leave Ready.
AtMostOneHandleListedTransitions ==
    /\ []CallsInTheirMode
    /\ [][ModeChangesWithin(ListedTransitions \cup LostHandleTransitions)]_vars

DoubleBufferedAfterSetters ==
    /\ Mode = "AutoDoubleBufferReceiving"
    /\ last.op = "continue_receiving_double_buffered"
    /\ chip.sys_mask = {"mtxfrs"} \cup RxInterrupts

\* C13: a Sending handle's continuation is the one of the configuration
\* send_raw was called with; no call that leaves the handle Sending changes
\* it, and the handle leaves Sending only when one of the four transitions
\* returns Ok.
ContinuationFixed ==
    [][/\ (Mode # "Sending" /\ Mode' = "Sending")
           => /\ last'.op \in {"send", "send_raw"}
              /\ state'.continuation = state'.config.continuation
       /\ (Mode = "Sending" /\ Mode' = "Sending")
           => state'.continuation = state.continuation
       /\ (Mode = "Sending" /\ Mode' # "Sending")
           => last'.op \in SendingOps /\ last'.res.t = "Ok"]_vars

RxContinuationKeptThroughFailure ==
    /\ Mode = "Sending" /\ last.op = "continue_receiving"
    /\ last.res = Err("Spi")
    /\ state.continuation.kind = "Rx"
    /\ state.continuation = pre.state.continuation

\* C14: the antenna delay a Sleeping handle carries is the value TX_ANTD held
\* when enter_sleep was called, with or without a sleep duration.
SleepKeepsTxAntennaDelay ==
    [][(last'.op = "enter_sleep" /\ Mode' = "Sleeping")
          => state'.tx_antenna_delay = chip.tx_antd]_vars

AsleepWithSetDelay ==
    /\ Mode = "Sleeping" /\ last.op = "enter_sleep"
    /\ state.tx_antenna_delay = 2
    /\ \E i \in 1..Len(log) : log[i].reg = "aon_cfg0" /\ Has(log[i].v, "sleep_tim")

IsWakeConfig(a) == a.reg = "aon_wcfg"
IsOtpRead(a) == a.k = "r" /\ a.reg = "otp_rdat"

\* C15: when enter_sleep configures what the chip reloads on wake-up, onw_lldo
\* is 1 exactly when the OTP word at 0x004 read nonzero, and onw_ldc, onw_llde
\* and onw_l64p are 1.
WakeConfigFollowsOtp ==
    (last.op = "enter_sleep" /\ SelectSeq(log, IsWakeConfig) # <<>>)
    => LET wcfg == SelectSeq(log, IsWakeConfig)[1].v
           word == SelectSeq(log, IsOtpRead)[1].v.value
       IN /\ wcfg.onw_lldo = 1 <=> word # 0
          /\ wcfg.onw_ldc = 1 /\ wcfg.onw_llde = 1 /\ wcfg.onw_l64p = 1

AsleepWithoutTuning ==
    /\ Mode = "Sleeping" /\ last.op = "enter_sleep"
    /\ SelectSeq(log, IsOtpRead)[1].v.value = 0
    /\ SelectSeq(log, IsWakeConfig)[1].v.onw_lldo = 0

\* C16 as the specification words it: no AutoDoubleBufferReceiving handle
\* comes out of a request for double-buffered reception with frame filtering;
\* the request ends in RxConfigFrameFilteringUnsupported.
DoubleBufferedFilteringRefused ==
    /\ Mode = "AutoDoubleBufferReceiving" => ~state.config.frame_filtering
    /\ (last.op = "send_raw" /\ pc = "idle")
       => last.res \in {Err("RxConfigFrameFilteringUnsupported"), Err("Spi")}

\* C17 as the specification words it: a send whose frame cannot be encoded
\* comes back with the serialization error; it does not panic and starts no
\* transmission.
EncodeFailureReported ==
    (last.op = "send" /\ pc = "idle")
    => /\ last.res # Panic
       /\ last.res.t = "Err" => chip.tx = "idle"

\* C18 as the specification words it: after enable_tx_interrupts only the
\* frame-sent interrupt is enabled, after enable_rx_interrupts only the nine
\* receive interrupts, after disable_interrupts none, whatever was enabled
\* before.
InterruptMaskOverwritten ==
    last.res.t = "Ok" =>
        /\ last.op = "enable_tx_interrupts" => chip.sys_mask = {"mtxfrs"}
        /\ last.op = "enable_rx_interrupts" => chip.sys_mask = RxInterrupts
        /\ last.op = "disable_interrupts" => chip.sys_mask = {}

\* the accesses the call that is returning would have made had none failed:
\* for send_raw the part from the last poll on
CallPrograms(op) ==
    CASE pc = "evc_clr" ->
           {<<R("evc_ctrl", [evc_clr |-> chip.evc_clr])>>
              \o (IF chip.evc_clr = 0 THEN evc_enable ELSE <<>>)}
      [] pc = "evc_en" ->
           {<<R("evc_ctrl", [evc_en |-> chip.evc_en])>>
              \o (IF chip.evc_en = 0
                  THEN force_idle(FALSE)
                       \o send_raw_tail(call.send_time, call.config, FALSE)
                  ELSE <<>>)}
      [] op = "init" -> {init_prog(otp) : otp \in OtpWords}
      [] op = "send_raw" ->
           {IF c[2].continuation = ContReady THEN evc_clear
            ELSE send_raw_rx_prog(c[1], c[2], FALSE, chip).prog : c \in TxPathCalls}
      [] op = "wait_transmit" -> {wait_transmit_prog(chip)}
      [] op = "finish_sending" -> {finish_sending_prog(state)}
      [] op = "abort_sending" -> {abort_sending_prog(state)}
      [] op = "continue_receiving" -> {continue_receiving_prog(state)}
      [] op = "continue_receiving_double_buffered" ->
           {continue_receiving_double_buffered_prog(state, chip)}
      [] op = "finish_receiving" -> {finish_receiving_prog(state)}

\* C19: a call that returns the transport error has made the accesses before
\* the failed one and nothing else: its record is a proper prefix of what it
\* would have done, and the chip is as those accesses leave it.
StopsAtFailedAccess ==
    [][(last'.res = Err("Spi") /\ faults' # faults)
          => \E prog \in CallPrograms(last'.op) :
                \E n \in 0..(Len(prog) - 1) :
                   /\ log' = (IF pc = "idle" THEN <<>> ELSE log) \o SubSeq(prog, 1, n)
                   /\ chip' = ApplyAll(chip, prog, 1, n)]_vars

WaitTransmitFailedAtReset ==
    /\ last.op = "wait_transmit" /\ last.res = Err("Spi")
    /\ Len(log) = 3 /\ "txfrs" \in chip.status /\ ~state.finished

IsTxBufferWrite(a) == a.k = "w" /\ a.reg = "tx_buffer"
IsTxStart(a) ==
    /\ a.k # "r" /\ a.reg = "sys_ctrl"
    /\ Field(a.v, "txstrt", 0) = 1 /\ Field(a.v, "trxoff", 0) = 0

\* the receive configuration a continuation asks for, run on chip c
ContinuationReceiving(config, c) ==
    config_receiving(config.continuation.kind = "RxDoubleBuffered",
        RxConfig_from_tx_config(config, config.continuation.frame_filtering,
                                config.continuation.auto_ack), c)

\* C21: when send_raw with an Rx or RxDoubleBuffered continuation writes the
\* transmit buffer or starts the transmitter, the whole of config_receiving,
\* for the discipline of the continuation and the RxConfig derived from the
\* TxConfig, has run before; when config_receiving fails there is no such write.
ReceiverConfiguredBeforeTransmit ==
    [][(pc = "idle" /\ pc' = "idle" /\ Mode = "Ready" /\ last'.op = "send_raw")
          => \A i \in 1..Len(log') :
                (IsTxBufferWrite(log'[i]) \/ IsTxStart(log'[i]))
                => \E config \in SendRawConfigs :
                      LET cr == ContinuationReceiving(config, chip)
                      IN /\ config.continuation # ContReady
                         /\ cr.err = "none"
                         /\ Len(cr.prog) < i
                         /\ SubSeq(log', 1, Len(cr.prog)) = cr.prog
                         /\ Mode' = "Sending" => state'.config = config]_vars

SentWithAutoAckContinuation ==
    /\ Mode = "Sending" /\ last.op = "send_raw"
    /\ state.continuation.kind = "Rx"
    /\ state.continuation.auto_ack.kind = "Enabled"
    /\ chip.autoack = 1 /\ chip.tx = "inflight"

\* C22 as the specification words it: the last write of a successful send_raw
\* is the SYS_CTRL write, with txstrt set, txdlys set exactly for
\* SendTime::Delayed and wait4resp set exactly when the continuation is not
\* ready-only.
FinalWriteStartsTransmission ==
    (last.op = "send_raw" /\ Mode = "Sending")
    => LET a == log[Len(log)]
       IN /\ a.k = "m" /\ a.reg = "sys_ctrl"
          /\ Field(a.v, "txstrt", 0) = 1
          /\ Field(a.v, "txdlys", 0) = 1 <=> flow.send_time = "Delayed"
          /\ Field(a.v, "wait4resp", 0) = 1 <=> state.continuation # ContReady

TimingErrors == {Err("DelayedSendTooLate"), Err("DelayedSendPowerUpWarning")}

\* what a poll returns, by what it read: the half-period warning counter, then
\* the power-up warning counter, then txfrs
PollPriority ==
    (last.op = "wait_transmit" /\ last.res # Err("Spi"))
    => IF log[1].v.value # 0 THEN last.res = Err("DelayedSendTooLate")
       ELSE IF log[2].v.value # 0 THEN last.res = Err("DelayedSendPowerUpWarning")
       ELSE IF log[3].v.txfrs = 0 THEN last.res = WouldBlock
       ELSE last.res.t = "Ok"

\* a poll that returns a timing error writes nothing and leaves the handle as
\* it was, and a handle whose counters are not 0 is not finished
TimingErrorKeepsUnfinished ==
    /\ (last.op = "wait_transmit" /\ last.res \in TimingErrors)
       => Writes(log) = <<>> /\ state = pre.state /\ ~state.finished
    /\ (Mode = "Sending" /\ (chip.evc_hpw # 0 \/ chip.evc_tpw # 0))
       => ~state.finished
    /\ (last.op = "continue_receiving" /\ pre.state.continuation.kind = "Rx"
          /\ ~pre.state.finished)
       => last.res = Err("TxNotFinishedyet")

\* C23 as the specification words it: the priority of the four outcomes, and
\* after a poll that returned a timing error the next poll of the handle
\* returns the same error.
TimingErrorRepeats ==
    /\ [](PollPriority /\ TimingErrorKeepsUnfinished)
    /\ [][(last.op = "wait_transmit" /\ last.res \in TimingErrors
             /\ last'.op = "wait_transmit")
             => last'.res = last.res]_vars

\* C23: the priority of the four outcomes; a poll that returns a timing error
\* writes no register and leaves finished false even with txfrs set; the
\* counters stay nonzero while the handle is Sending, so the next poll returns
\* a timing error again unless one of its reads fails (DelayedSendTooLate
\* takes over from DelayedSendPowerUpWarning if the half-period counter
\* becomes nonzero as well), and continue_receiving returns TxNotFinishedyet.
TimingErrorSticks ==
    /\ [](PollPriority /\ TimingErrorKeepsUnfinished)
    /\ [][(Mode = "Sending" /\ Mode' = "Sending")
             => /\ chip.evc_hpw # 0 => chip'.evc_hpw # 0
                /\ chip.evc_tpw # 0 => chip'.evc_tpw # 0]_vars
    /\ [][(last.op = "wait_transmit" /\ last.res \in TimingErrors
             /\ last'.op = "wait_transmit")
             => \/ last'.res = last.res
                \/ last'.res = Err("Spi")
                \/ /\ last.res = Err("DelayedSendPowerUpWarning")
                   /\ last'.res = Err("DelayedSendTooLate")]_vars

TimingErrorWithFrameSent ==
    /\ last.op = "wait_transmit" /\ last.res = Err("DelayedSendPowerUpWarning")
    /\ "txfrs" \in chip.status /\ Mode = "Sending" /\ ~state.finished

\* finished is false in the handle send and send_raw return, and once true
\* stays true while the handle is Sending
FinishedLatches ==
    /\ [](last.op \in {"send", "send_raw"} /\ Mode = "Sending" => ~state.finished)
    /\ [][(Mode = "Sending" /\ Mode' = "Sending" /\ state.finished)
             => state'.finished]_vars

\* C24 as the specification words it: finished becomes true only in a
\* wait_transmit call that returns Ok, and a call that returns would-block or
\* an error leaves it as it was.
FinishedOnlyWithOk ==
    /\ FinishedLatches
    /\ [](last.op = "wait_transmit" /\ last.res.t # "Ok"
            => state.finished = pre.state.finished)
    /\ [][(Mode = "Sending" /\ Mode' = "Sending" /\ ~state.finished
             /\ state'.finished)
             => last'.op = "wait_transmit" /\ last'.res.t = "Ok"]_vars

\* C24: finished is a latch; it becomes true only in a wait_transmit call
\* that read txfrs = 1 and cleared the four transmit status flags, whether
\* that call then returns Ok or fails reading the time stamp; a call that
\* returns would-block, a timing error, or a transport error from an access
\* up to the clearing write leaves it as it was.
FinishedOnceFlagsCleared ==
    /\ FinishedLatches
    /\ [](last.op = "wait_transmit"
            /\ (last.res \in {WouldBlock} \cup TimingErrors
                  \/ (last.res = Err("Spi") /\ Len(log) < 4))
            => state.finished = pre.state.finished)
    /\ [][(Mode = "Sending" /\ Mode' = "Sending" /\ ~state.finished
             /\ state'.finished)
             => /\ last'.op = "wait_transmit"
                /\ Len(log') >= 4
                /\ log'[3].v.txfrs = 1 /\ IsStatusClear(log'[4])
                /\ last'.res.t = "Ok" \/ last'.res = Err("Spi")]_vars

FinishedByFailedPoll ==
    /\ last.op = "wait_transmit" /\ last.res = Err("Spi")
    /\ Mode = "Sending" /\ state.finished /\ ~pre.state.finished

\* the place in the log of the first access that a description fits, 0 if none
FirstAccess(Fits(_)) ==
    IF \E i \in 1..Len(log) : Fits(log[i])
    THEN CHOOSE i \in 1..Len(log) :
             Fits(log[i]) /\ \A j \in 1..(i - 1) : ~Fits(log[j])
    ELSE 0

IsClockWrite(a, sysclks) ==
    a.reg = "pmsc_ctrl0" /\ Has(a.v, "sysclks") /\ a.v.sysclks = sysclks
IsSleepCounterWrite(a, sleep_cen) ==
    a.reg = "aon_cfg1" /\ a.k # "r" /\ a.v.sleep_cen = sleep_cen
IsSleepTimeWrite(a) == a.reg = "aon_cfg0" /\ Has(a.v, "sleep_tim")
IsUpload(a) == a.reg = "aon_ctrl" /\ Has(a.v, "upl_cfg") /\ a.v.upl_cfg = 1

\* C25 as the specification words it: with a wake duration enter_sleep forces
\* the fixed clock, disables the sleep counter, programs the counter value,
\* uploads it, re-enables the counter and restores automatic clock selection,
\* in this order, and never writes the register holding the counter value
\* after it has enabled the counter.
SleepCounterUploadedBeforeEnabled ==
    (last.op = "enter_sleep" /\ Mode = "Sleeping"
        /\ \E i \in 1..Len(log) : IsSleepTimeWrite(log[i]))
    => LET force == FirstAccess(LAMBDA a : IsClockWrite(a, 1))
           disable == FirstAccess(LAMBDA a : IsSleepCounterWrite(a, 0))
           program == FirstAccess(IsSleepTimeWrite)
           upload == FirstAccess(IsUpload)
           enable == FirstAccess(LAMBDA a : IsSleepCounterWrite(a, 1))
           auto == FirstAccess(LAMBDA a : IsClockWrite(a, 0))
       IN /\ 0 < force /\ force < disable /\ disable < program
          /\ program < upload /\ upload < enable /\ enable < auto
          /\ \A j \in (enable + 1)..Len(log) :
                 log[j].reg = "aon_cfg0" => log[j].k = "r"

\* what enter_sleep does with a wake duration: the counter is enabled before
\* the upload, and the wake sources are set in the register holding the
\* counter value afterwards
SleepCounterEnabledBeforeUpload ==
    (last.op = "enter_sleep" /\ Mode = "Sleeping"
        /\ \E i \in 1..Len(log) : IsSleepTimeWrite(log[i]))
    => LET force == FirstAccess(LAMBDA a : IsClockWrite(a, 1))
           disable == FirstAccess(LAMBDA a : IsSleepCounterWrite(a, 0))
           program == FirstAccess(IsSleepTimeWrite)
           upload == FirstAccess(IsUpload)
           enable == FirstAccess(LAMBDA a : IsSleepCounterWrite(a, 1))
           auto == FirstAccess(LAMBDA a : IsClockWrite(a, 0))
       IN /\ 0 < force /\ force < disable /\ disable < program
          /\ program < enable /\ enable < upload /\ upload < auto
          /\ \E j \in (auto + 1)..Len(log) :
                 log[j].reg = "aon_cfg0" /\ log[j].k # "r"

LdeLoadSteps ==
    <<M("pmsc_ctrl0", [or |-> "0x0301"]),
      W("otp_ctrl", [ldeload |-> 1]),
      [k |-> "d", reg |-> "delay_ms", v |-> [ms |-> 5]],
      M("pmsc_ctrl0", [and_not |-> "0x0101"])>>

\* C26: init sets the clock bits of PMSC_CTRL0, writes the load trigger, waits
\* 5 ms and clears the clock bits, each step directly after the one before;
\* a Ready handle comes out of init only with all four steps done, as its
\* last accesses, and a failed register access in init leaves no handle.
LdeLoadInOrder ==
    last.op = "init"
    => /\ \A i \in 1..Len(log) : \A k \in 2..4 :
              log[i] = LdeLoadSteps[k] => i > 1 /\ log[i - 1] = LdeLoadSteps[k - 1]
       /\ \A i \in 1..Len(log) :
              log[i] = LdeLoadSteps[1] => \A j \in 1..(i - 1) : log[j].reg # "otp_ctrl"
                                                              \/ ~Has(log[j].v, "ldeload")
       /\ Mode = "Ready"
            => /\ last.res = Ok("Ready")
               /\ Len(log) >= 4
               /\ SubSeq(log, Len(log) - 3, Len(log)) = LdeLoadSteps
       /\ last.res = Err("Spi") => Mode = "Dropped"
       /\ Mode \in {"Ready", "Dropped"}

InitialisedWithRegulatorTuned ==
    /\ last.op = "init" /\ Mode = "Ready"
    /\ \E i \in 1..Len(log) : log[i].reg = "ldotune"
    /\ log[Len(log)] = LdeLoadSteps[4]

EventCounterHandshake ==
    <<W("evc_ctrl", [evc_clr |-> 1]), R("evc_ctrl", [evc_clr |-> 0]),
      W("evc_ctrl", [evc_en |-> 1]), R("evc_ctrl", [evc_en |-> 0]),
      W("sys_ctrl", [trxoff |-> 1])>>

PollsOne ==
    \/ pc = "evc_clr" /\ chip.evc_clr = 1
    \/ pc = "evc_en" /\ chip.evc_en = 1

\* C27: send_raw with a ready-only continuation writes the clear bit of the
\* event counters, reads it back 0, writes the enable bit, reads it back 0 and
\* forces the transceiver idle, in this order, before any write of the
\* transmit buffer or of transmit start; while a polled bit reads 1 the call
\* stays in its loop; and with each polled bit read as 0 in the end the call
\* returns.
HandshakeBeforeTransmit ==
    /\ [](last.op = "send_raw"
            => /\ \A i \in 1..Len(log) :
                      /\ i <= 5 => log[i] = EventCounterHandshake[i]
                      /\ (IsTxBufferWrite(log[i]) \/ IsTxStart(log[i])) => i > 5
               /\ pc = "evc_clr" => log = SubSeq(EventCounterHandshake, 1, 1)
               /\ pc = "evc_en" => log = SubSeq(EventCounterHandshake, 1, 3)
               /\ Mode = "Sending" /\ pc = "idle" => Len(log) > 5)
    /\ [][PollsOne => pc' = pc \/ last'.res = Err("Spi")]_vars
    /\ (pc # "idle") ~> (pc = "idle")

SentAfterHandshake ==
    /\ last.op = "send_raw" /\ Mode = "Sending" /\ pc = "idle"
    /\ state.config.continuation = ContReady
    /\ SubSeq(log, 1, 5) = EventCounterHandshake
    /\ \E i \in 6..Len(log) : IsTxStart(log[i])

\* C28: after send_raw with a ready-only continuation has returned a Sending
\* handle, with every register access succeeding and the chip sending the
\* frame in the end, unless a warning counter leaves 0 the polling caller gets
\* Ok with the time stamp from wait_transmit, and the finish_sending that
\* follows returns a Ready handle.
PollingEndsReady ==
    /\ (last.op = "send_raw" /\ Mode = "Sending" /\ pc = "idle")
          ~> (\/ last.op = "wait_transmit" /\ last.res.t = "Ok"
                   /\ last.res.v = Instant_new_unchecked(chip.tx_stamp)
              \/ chip.evc_hpw # 0 \/ chip.evc_tpw # 0)
    /\ (last.op = "wait_transmit" /\ last.res.t = "Ok")
          ~> (last.op = "finish_sending" /\ last.res.t = "Ok" /\ Mode = "Ready")
    /\ [][(last.op = "wait_transmit" /\ last.res.t = "Ok"
             /\ last'.op = "finish_sending")
            => Mode' = "Ready" /\ last'.res.t = "Ok"]_vars
    /\ [](faults = MaxFaults /\ last.res # Err("Spi"))

FinishedAfterSyncedSend ==
    /\ last.op = "finish_sending" /\ last.res.t = "Ok" /\ Mode = "Ready"
    /\ flow.send_time = "OnSync"

\* the RxConfig a Sending handle's continuation stands for
ContinuationRxConfig(st) ==
    RxConfig_from_tx_config(st.config, st.config.continuation.frame_filtering,
                            st.config.continuation.auto_ack)

\* C29: a Sending handle's continuation is that of its configuration, and
\* neither changes while the handle is Sending; send_raw with a receiving
\* continuation has run config_receiving with the RxConfig derived from them,
\* and the handle continue_receiving or continue_receiving_double_buffered
\* returns carries that same RxConfig, in the mode of the continuation.
ContinuationConfigAsProgrammed ==
    /\ [](Mode = "Sending" => state.continuation = state.config.continuation)
    /\ [][(Mode = "Sending" /\ Mode' = "Sending")
            => /\ state'.config = state.config
               /\ state'.continuation = state.continuation]_vars
    /\ [][(Mode = "Ready" /\ last'.op = "send_raw" /\ Mode' = "Sending"
             /\ state'.continuation # ContReady)
            => LET cr == config_receiving(
                             state'.continuation.kind = "RxDoubleBuffered",
                             ContinuationRxConfig(state'), chip)
               IN /\ cr.err = "none"
                  /\ Len(log') > Len(cr.prog)
                  /\ SubSeq(log', 1, Len(cr.prog)) = cr.prog]_vars
    /\ [][(Mode = "Sending"
             /\ Mode' \in {"SingleBufferReceiving", "AutoDoubleBufferReceiving"})
            => /\ state'.config = ContinuationRxConfig(state)
               /\ last'.op = IF state.continuation.kind = "Rx"
                              THEN "continue_receiving"
                              ELSE "continue_receiving_double_buffered"
               /\ Mode' = IF state.continuation.kind = "Rx"
                           THEN "SingleBufferReceiving"
                           ELSE "AutoDoubleBufferReceiving"
               /\ state.continuation # ContReady]_vars

ReceivingWithFilteringAndAck ==
    /\ Mode = "SingleBufferReceiving" /\ last.op = "continue_receiving"
    /\ state.config.frame_filtering /\ state.config.auto_ack = AckEnabled(0)
    /\ state.config.sfd_sequence = "Decawave"
    /\ pre.state.config.continuation = ContRx(TRUE, AckEnabled(0))

IsFrameLengthWrite(a) == a.reg = "tx_fctrl" /\ Has(a.v, "tflen")

\* C30 as the specification words it: whatever byte count the writer returns,
\* send_raw goes on to program the frame length, with the count plus two, a
\* value that fits the frame-length field.
FrameLengthIsLenPlusTwo ==
    (last.op = "send_raw" /\ \E i \in 1..Len(log) : Has(log[i].v, "len"))
    => LET len == SelectSeq(log, IsTxBufferWrite)[1].v.len
           lengths == SelectSeq(log, IsFrameLengthWrite)
       IN /\ last.res # Panic
          /\ lengths # <<>> =>
                /\ lengths[1].v.tflen = len + 2
                /\ lengths[1].v.tflen < 2 ^ TflenBits

\* what holds of the frame length: it is the count plus two for counts up to
\* 253, and fits the field for counts up to 125
FrameLengthOfShortFrames ==
    (last.op = "send_raw" /\ \E i \in 1..Len(log) : Has(log[i].v, "len"))
    => LET len == SelectSeq(log, IsTxBufferWrite)[1].v.len
           lengths == SelectSeq(log, IsFrameLengthWrite)
       IN /\ len <= 253 => last.res # Panic
          /\ (lengths # <<>> /\ len <= 253) => lengths[1].v.tflen = len + 2
          /\ (lengths # <<>> /\ len <= 125) => lengths[1].v.tflen < 2 ^ TflenBits

\* the RxConfig the call that has just returned has applied, if it applied one
AppliedRxConfig ==
    IF last.op \in {"receive", "receive_auto_double_buffered"}
         /\ Mode \in {"SingleBufferReceiving", "AutoDoubleBufferReceiving"}
    THEN <<state.config>>
    ELSE IF last.op = "send_raw" /\ Mode = "Sending"
              /\ state.continuation # ContReady
    THEN <<ContinuationRxConfig(state)>>
    ELSE <<>>

\* C31 as the specification words it: after a receive configuration the
\* auto-acknowledge bit of SYS_CFG is 1 exactly when the RxConfig just applied
\* has auto-ack enabled.
AutoAckFollowsLastConfig ==
    AppliedRxConfig # <<>>
    => (chip.autoack = 1 <=> AppliedRxConfig[1].auto_ack.kind = "Enabled")

\* what holds of the bit: a configuration with auto-ack enabled sets it, and
\* no call clears it
AutoAckOnlySet ==
    /\ [](AppliedRxConfig # <<>> /\ AppliedRxConfig[1].auto_ack.kind = "Enabled"
            => chip.autoack = 1)
    /\ [][chip.autoack = 1 => chip'.autoack = 1]_vars

\* C32 as the specification words it: whatever the continuation, both warning
\* counters are 0 when send_raw hands out the Sending handle, and a poll
\* reports a timing error only for a transmission that was itself delayed.
TimingErrorOfThisSend ==
    /\ [][(Mode = "Ready" /\ Mode' = "Sending" /\ last'.op = "send_raw")
            => chip'.evc_hpw = 0 /\ chip'.evc_tpw = 0]_vars
    /\ [](last.op = "wait_transmit" /\ last.res \in TimingErrors
            => flow.send_time = "Delayed")

\* what holds: send_raw with a ready-only continuation starts from cleared
\* counters, and a poll reports a timing error exactly on a nonzero counter
TimingErrorOfReadyOnlySend ==
    /\ [][(Mode = "Ready" /\ Mode' = "Sending" /\ last'.op = "send_raw"
             /\ state'.continuation = ContReady)
            => chip'.evc_hpw = 0 /\ chip'.evc_tpw = 0]_vars
    /\ [][(Mode = "Ready" /\ Mode' = "Sending" /\ last'.op = "send_raw"
             /\ state'.continuation # ContReady)
            => chip'.evc_hpw = chip.evc_hpw /\ chip'.evc_tpw = chip.evc_tpw]_vars
    /\ [](last.op = "wait_transmit" /\ last.res \in TimingErrors
            => chip.evc_hpw # 0 \/ chip.evc_tpw # 0)

ContinuedReceiving ==
    /\ last.op \in {"continue_receiving", "continue_receiving_double_buffered"}
    /\ Mode \in {"SingleBufferReceiving", "AutoDoubleBufferReceiving"}

\* C33 as the specification words it: when continue_receiving or
\* continue_receiving_double_buffered returns a receiving handle the chip's
\* receiver is on, whatever the send time of the transmission before.
ContinuedReceiverIsOn == ContinuedReceiving => chip.rx

\* what holds: with no access failed, the receiver is on unless the
\* transmission waited for the sync pin, and then it is off; and the two
\* calls leave the receiver as they found it
ContinuedReceiverIsOnUnlessSynced ==
    /\ [](ContinuedReceiving /\ faults = 0
            => (chip.rx <=> flow.send_time # "OnSync"))
    /\ [][ContinuedReceiving' /\ Mode = "Sending" => chip'.rx = chip.rx]_vars

\* C34: the sequence counter changes only in a call of send, which advances
\* it by one through next_seq as it starts; every other call, and every later
\* step of send, hands it on as it was, whether the call succeeds or fails.
SeqChangedOnlyBySend ==
    /\ [][seq' # seq
            => /\ last'.op = "send" /\ pc = "idle" /\ Mode = "Ready"
               /\ seq' = next_seq(seq).seq]_vars
    /\ [][last'.op # "send" => seq' = seq]_vars

ContinuedWithAdvancedSeq ==
    /\ Mode = "SingleBufferReceiving" /\ last.op = "continue_receiving"
    /\ seq = 1 /\ pre.seq = 1 /\ sent.n = 1

====
